---- MODULE Spec2Model ----
(***************************************************************************)
(* Model of ghoul::opengl::ShaderPreprocessor                              *)
(* (src/src/opengl/shaderpreprocessor.cpp).                                *)
(*                                                                         *)
(* A pass of process() is a run of the line scanner over a stack of open   *)
(* files.  One parseLine() call is one step; the recursion of includeFile  *)
(* is the stack `inputs` of the environment.  Strings that the code only   *)
(* copies are TLA+ strings; strings that the code takes apart are kept in  *)
(* pieces: a dotted name is the sequence of its segments, a source line is *)
(* the sequence of its literal parts and its #{...} tokens.                *)
(***************************************************************************)
EXTENDS Integers, Sequences, FiniteSets, TLC

VARIABLES
    files,          \* the disk: absolute path -> sequence of source lines
    includePaths,   \* ShaderPreprocessor::_includePaths (process wide)
    shaderPath,     \* _shaderPath
    dictionary,     \* _dictionary
    includedFiles,  \* _includedFiles: path -> [fileIdentifier, isTracked,
                    \* watched (the File of the entry holds a callback)]
    pc,             \* "idle", "running", "done", "error": where process() is
    env,            \* ShaderPreprocessor::Env of the running pass
    error,          \* the exception process() ended with (NoError if none)
    output,         \* the caller's output string
    results,        \* what each finished process() call gave its caller
    onChangeCallback,   \* _onChangeCallback: a function of the client, "" if empty
    log,            \* the calls of setCallback and what each notification invoked
    client,         \* what the program that owns the preprocessor works with
    segment,        \* the shared-memory segment of one name: "none", "exists"
    mutex,          \* Header::mutex of the segment: TRUE when the flag is set
    procs,          \* where each process using the segment is
    isInitialized,  \* TextureUnit::_isInitialized
    totalActive,    \* TextureUnit::_totalActive
    maxTexUnits,    \* TextureUnit::_maxTexUnits
    busyUnits,      \* TextureUnit::_busyUnits, slot i of the code at i + 1
    units,          \* the TextureUnit objects of the program
    unitError,      \* what the last TextureUnit operation threw ("" if nothing)
    capabilities    \* SystemCapabilities: initialized or not, the units it reports

\* the variables of the ShaderPreprocessor
preprocessor == <<files, includePaths, shaderPath, dictionary, includedFiles,
                  pc, env, error, output, results, onChangeCallback, log, client>>

\* the variables of SharedMemory
sharedMemory == <<segment, mutex, procs>>

\* the variables of TextureUnit
textureUnits == <<isInitialized, totalActive, maxTexUnits, busyUnits, units,
                  unitError, capabilities>>

vars == <<preprocessor, sharedMemory, textureUnits>>

\* the variables of the change notification
hooks == <<onChangeCallback, log, client>>

-----------------------------------------------------------------------------
(* Bounds of the model *)

\* longest root file of the loop family
MaxLen == 4
\* process() calls on the instance
MaxPasses == 2
\* largest range bound tried in "#for i in min..max"
MaxRange == 2
\* longest root file and longest included file of the include family
MaxIncRoot == 3
MaxIncLen == 2
\* files a pass can hold open at once: the deepest nesting of includes
MaxDepth == 4

\* entries of the log: calls of setCallback and notifications
MaxCalls == 3

\* lines in the body of a loop without keys
MaxSkipped == 2

\* pieces (literal parts and tokens) of a line of the splice family
MaxPieces == 2

\* processes that use the shared-memory segment
MaxProcs == 3

\* TextureUnit objects of the program
MaxObjects == 3
\* most texture units the system capabilities report
MaxReported == 2

-----------------------------------------------------------------------------
(* Strings *)

\* names that occur as dictionary keys
KeyNames == {"a", "b"} \cup {ToString(n) : n \in 1 .. (MaxRange + 2)}

Quote(s) == "\"" \o s \o "\""

\* isString on one dot-free piece of text
IsQuoted(s) == \E k \in KeyNames : s = Quote(k)

\* str.substr(1, length - 2) of a quoted string
Unquote(s) == CHOOSE k \in KeyNames : s = Quote(k)

\* isString(str): str is a dotted name given by its segments
isString(str) == Len(str) = 1 /\ IsQuoted(str[1])

\* a dotted name written out
RECURSIVE Dotted(_)
Dotted(p) ==
    IF Len(p) = 0 THEN ""
    ELSE IF Len(p) = 1 THEN p[1]
    ELSE p[1] \o "." \o Dotted(Tail(p))

\* std::stoi on the numerals the model writes
Numerals == {ToString(n) : n \in -1 .. MaxRange}

IsNumeral(s) == s \in Numerals

stoi(s) == CHOOSE n \in -1 .. MaxRange : ToString(n) = s

-----------------------------------------------------------------------------
(* ghoul::Dictionary: an ordered list of entries [k, v]; a value is        *)
(* [t |-> type, v |-> payload]                                             *)

Lit(s) == [t |-> "lit", s |-> s, tok |-> <<>>]
Sub(tok) == [t |-> "sub", s |-> "", tok |-> tok]

BoolV(b) == [t |-> "bool", v |-> b]
StrV(pieces) == [t |-> "string", v |-> pieces]
IntV(n) == [t |-> "int", v |-> n]
DoubleV(i, digits) == [t |-> "double", v |-> [i |-> i, d |-> digits]]
VecV(type, xs) == [t |-> type, v |-> xs]
DictV(d) == [t |-> "dict", v |-> d]
\* a type outside the eight that substitute() probes
OtherV == [t |-> "vec4", v |-> <<0, 0, 0, 0>>]

Entry(k, v) == [k |-> k, v |-> v]

DictKeys(d) == [i \in 1 .. Len(d) |-> d[i].k]

DictIndex(d, key) == CHOOSE i \in 1 .. Len(d) : d[i].k = key

DictHasFlatKey(d, key) == \E i \in 1 .. Len(d) : d[i].k = key

DictGet(d, key) == d[DictIndex(d, key)].v

\* Dictionary::hasKey with a dotted key
RECURSIVE DictHasKey(_, _)
DictHasKey(d, key) ==
    IF Len(key) = 0 THEN FALSE
    ELSE IF ~DictHasFlatKey(d, key[1]) THEN FALSE
    ELSE IF Len(key) = 1 THEN TRUE
    ELSE LET x == DictGet(d, key[1])
         IN  x.t = "dict" /\ DictHasKey(x.v, Tail(key))

\* the stored value at a dotted key that exists
RECURSIVE DictAt(_, _)
DictAt(d, key) ==
    IF Len(key) = 1 THEN DictGet(d, key[1])
    ELSE DictAt(DictGet(d, key[1]).v, Tail(key))

\* Dictionary::hasValue<T>
DictHasValue(d, key, type) == DictHasKey(d, key) /\ DictAt(d, key).t = type

\* Dictionary::value<T>: the payload, when hasValue<T>
DictValue(d, key) == DictAt(d, key).v

\* Dictionary::setValue on a top-level key
DictSetValue(d, key, value) ==
    IF DictHasFlatKey(d, key)
    THEN [d EXCEPT ![DictIndex(d, key)] = Entry(key, value)]
    ELSE Append(d, Entry(key, value))

-----------------------------------------------------------------------------
(* Errors and paths *)

Path(dir, name) == [dir |-> dir, name |-> name]

NoPath == Path("", "")

\* path.string()
PathText(p) == IF p.dir = "" THEN p.name ELSE "/" \o p.dir \o "/" \o p.name

\* an exception: its type, its message text, and what the message names: a
\* token, the place debugString gives (file, line) and the place of a #for
NoError ==
    [type |-> "none", what |-> "", token |-> "", file |-> NoPath, line |-> 0,
     forFile |-> NoPath, forLine |-> 0]

Raise(type, what, token, file, line) ==
    [type |-> type, what |-> what, token |-> token, file |-> file, line |-> line,
     forFile |-> NoPath, forLine |-> 0]

\* debugString(env): the file and the line counter of the innermost input
debugFile(e) ==
    IF Len(e.inputs) > 0 THEN e.inputs[Len(e.inputs)].path ELSE NoPath

debugLine(e) ==
    IF Len(e.inputs) > 0 THEN e.inputs[Len(e.inputs)].lineNumber ELSE 0

Throw(e, type, what, token) ==
    [e EXCEPT !.err = Raise(type, what, token, debugFile(e), debugLine(e))]

-----------------------------------------------------------------------------
(* The anonymous helpers of shaderpreprocessor.cpp.  A probe that can      *)
(* throw answers "yes", "no" or "throw".                                   *)

hasKeyRecursive(dict, key) ==
    IF Len(key) > 1
    THEN LET before == <<key[1]>>
             after == Tail(key)
         IN  IF DictHasKey(dict, before)
             THEN IF DictAt(dict, before).t # "dict"
                  THEN "throw"      \* value<Dictionary> of another type
                  ELSE IF DictHasKey(DictValue(dict, before), after)
                       THEN "yes" ELSE "no"
             ELSE "no"
    ELSE IF DictHasKey(dict, key) THEN "yes" ELSE "no"

hasValueRecursive(dict, key, type) ==
    IF Len(key) > 1
    THEN LET before == <<key[1]>>
             after == Tail(key)
         IN  IF DictHasValue(dict, before, "dict")
             THEN DictHasValue(DictValue(dict, before), after, type)
             ELSE FALSE
    ELSE DictHasValue(dict, key, type)

valueRecursive(dict, key) ==
    IF Len(key) > 1
    THEN DictValue(DictValue(dict, <<key[1]>>), Tail(key))
    ELSE DictValue(dict, key)

-----------------------------------------------------------------------------
(* Conversions of substitute() *)

\* a conversion that writes a bool as a word
BoolAlpha(b) == IF b THEN "true" ELSE "false"

\* std::to_string(bool): the bool is promoted to int
BoolToString(b) == ToString(IF b THEN 1 ELSE 0)

RECURSIVE Digits(_)
Digits(ds) == IF Len(ds) = 0 THEN "" ELSE ToString(ds[1]) \o Digits(Tail(ds))

RECURSIVE Zeros(_)
Zeros(n) == IF n <= 0 THEN "" ELSE "0" \o Zeros(n - 1)

\* std::to_string(double): "%f", six decimals
DoubleToString(x) == ToString(x.i) \o "." \o Digits(x.d) \o Zeros(6 - Len(x.d))

\* std::format("{}", double): the shortest text that reads back
DoubleFormat(x) ==
    IF Len(x.d) = 0 THEN ToString(x.i) ELSE ToString(x.i) \o "." \o Digits(x.d)

RECURSIVE CommaInts(_)
CommaInts(xs) ==
    IF Len(xs) = 1 THEN ToString(xs[1])
    ELSE ToString(xs[1]) \o "," \o CommaInts(Tail(xs))

RECURSIVE CommaDoubles(_)
CommaDoubles(xs) ==
    IF Len(xs) = 1 THEN DoubleFormat(xs[1])
    ELSE DoubleFormat(xs[1]) \o "," \o CommaDoubles(Tail(xs))

-----------------------------------------------------------------------------
(* Alias resolution and substitution *)

\* a segment with the top of its alias stack in its place, when it has one
TopAlias(name, e) ==
    IF name \in DOMAIN e.aliases /\ Len(e.aliases[name]) > 0
    THEN e.aliases[name][Len(e.aliases[name])]
    ELSE <<name>>

\* a resolveAlias that resolves the aliases of every segment of the name
RECURSIVE EverySegment(_, _)
EverySegment(in, e) ==
    IF Len(in) = 0 THEN <<>>
    ELSE TopAlias(in[1], e) \o EverySegment(Tail(in), e)

resolveAliasEverySegment(in, e) ==
    LET out == EverySegment(in, e)
    IN  [out |-> out,
         res |-> IF Len(in) = 1 /\ isString(out)
                 THEN "yes"
                 ELSE hasKeyRecursive(e.dict, out)]

\* resolveAlias(in, out, env): [out, res]
resolveAlias(in, e) ==
    LET name == in[1]
        afterDot == Tail(in)
        beforeDot ==
            IF name \in DOMAIN e.aliases /\ Len(e.aliases[name]) > 0
            THEN e.aliases[name][Len(e.aliases[name])]
            ELSE <<name>>
        out == beforeDot \o afterDot
    IN  [out |-> out,
         res |-> IF Len(afterDot) = 0 /\ isString(beforeDot)
                 THEN "yes"
                 ELSE hasKeyRecursive(e.dict, out)]

\* what substitute() gives for a token that resolved
SubstituteValue(dict, resolved) ==
    IF isString(resolved) THEN <<Lit(Unquote(resolved[1]))>>
    ELSE IF hasValueRecursive(dict, resolved, "bool")
         THEN <<Lit(BoolToString(valueRecursive(dict, resolved)))>>
    ELSE IF hasValueRecursive(dict, resolved, "string")
         THEN valueRecursive(dict, resolved)
    ELSE IF hasValueRecursive(dict, resolved, "int")
         THEN <<Lit(ToString(valueRecursive(dict, resolved)))>>
    ELSE IF hasValueRecursive(dict, resolved, "double")
         THEN <<Lit(DoubleToString(valueRecursive(dict, resolved)))>>
    ELSE IF hasValueRecursive(dict, resolved, "ivec2")
         THEN <<Lit("ivec2(" \o CommaInts(valueRecursive(dict, resolved)) \o ")")>>
    ELSE IF hasValueRecursive(dict, resolved, "ivec3")
         THEN <<Lit("ivec3(" \o CommaInts(valueRecursive(dict, resolved)) \o ")")>>
    ELSE IF hasValueRecursive(dict, resolved, "dvec2")
         THEN <<Lit("dvec2(" \o CommaDoubles(valueRecursive(dict, resolved)) \o ")")>>
    ELSE IF hasValueRecursive(dict, resolved, "dvec3")
         THEN <<Lit("dvec3(" \o CommaDoubles(valueRecursive(dict, resolved)) \o ")")>>
    ELSE <<>>

SubstituteSupported(dict, resolved) ==
    \/ isString(resolved)
    \/ \E type \in {"bool", "string", "int", "double",
                    "ivec2", "ivec3", "dvec2", "dvec3"} :
           hasValueRecursive(dict, resolved, type)

\* substitute(in, env): [err, out]
substitute(in, e) ==
    CHOOSE s \in
        { IF r.res = "throw"
          THEN [err |-> Raise("DictionaryError", "value is not a Dictionary",
                              Dotted(in), debugFile(e), debugLine(e)),
                out |-> <<>>]
          ELSE IF r.res = "no"
          THEN [err |-> Raise("SubstitutionError", "Could not resolve variable",
                              Dotted(in), debugFile(e), debugLine(e)),
                out |-> <<>>]
          ELSE IF ~SubstituteSupported(e.dict, r.out)
          THEN [err |-> Raise("SubstitutionError", "type that is not supported",
                              Dotted(in), debugFile(e), debugLine(e)),
                out |-> <<>>]
          ELSE [err |-> NoError, out |-> SubstituteValue(e.dict, r.out)] :
          r \in {resolveAlias(in, e)} } : TRUE

\* line.find("#{"): the first piece that opens a token, 0 if none
FirstToken(line) ==
    IF \E i \in 1 .. Len(line) : line[i].t # "lit"
    THEN CHOOSE i \in 1 .. Len(line) :
             /\ line[i].t # "lit"
             /\ \A j \in 1 .. (i - 1) : line[j].t = "lit"
    ELSE 0

\* line.rfind("#{"): the last piece that opens a token, 0 if none
LastToken(line) ==
    IF \E i \in 1 .. Len(line) : line[i].t # "lit"
    THEN CHOOSE i \in 1 .. Len(line) :
             /\ line[i].t # "lit"
             /\ \A j \in (i + 1) .. Len(line) : line[j].t = "lit"
    ELSE 0

\* one turn of the while loop of substituteLine, the line holding a token
spliceToken(e) ==
    CHOOSE r \in
        { IF e.line[beginOffset].t = "open"
          THEN Throw(e, "ParserError", "Could not parse line", "")
          ELSE CHOOSE r1 \in
                   { IF s.err.type # "none" THEN [e EXCEPT !.err = s.err]
                     ELSE [e EXCEPT !.line =
                               SubSeq(e.line, 1, beginOffset - 1) \o s.out
                               \o SubSeq(e.line, beginOffset + 1, Len(e.line))] :
                     s \in {substitute(e.line[beginOffset].tok, e)} } : TRUE :
          beginOffset \in {LastToken(e.line)} } : TRUE

\* the while loop of substituteLine from a line on, seen the lines it had
\* before: a line that comes back is a loop that never ends (spins)
RECURSIVE substituteLoop(_, _)
substituteLoop(e, seen) ==
    IF LastToken(e.line) = 0 THEN e
    ELSE IF e.line \in seen THEN [e EXCEPT !.spins = TRUE]
    ELSE CHOOSE r \in {IF e1.err.type # "none" THEN e1
                       ELSE substituteLoop(e1, seen \cup {e.line}) :
                       e1 \in {spliceToken(e)}} : TRUE

\* substituteLine(env) on env.line
substituteLine(e) == substituteLoop(e, {})

\* the text of a line without tokens
RECURSIVE Flat(_)
Flat(line) == IF Len(line) = 0 THEN "" ELSE line[1].s \o Flat(Tail(line))


-----------------------------------------------------------------------------
(* Output of the pass: the lines written to env.output *)

OutText(s) == [k |-> "text", s |-> s, n |-> 0, id |-> 0, file |-> NoPath]
OutComment(s) == [k |-> "comment", s |-> s, n |-> 0, id |-> 0, file |-> NoPath]
OutLine(n, id, file) == [k |-> "line", s |-> "", n |-> n, id |-> id, file |-> file]
OutVersion == [k |-> "version", s |-> "#version", n |-> 0, id |-> 0, file |-> NoPath]
OutOs == [k |-> "os", s |-> "#define __OS__", n |-> 0, id |-> 0, file |-> NoPath]

Emit(e, rec) == [e EXCEPT !.output = Append(@, rec)]

\* addLineNumber(env)
addLineNumber(e) ==
    LET input == e.inputs[Len(e.inputs)]
    IN  Emit(e, OutLine(input.lineNumber, e.reg[input.path].fileIdentifier,
                        input.path))

-----------------------------------------------------------------------------
(* Scopes and aliases *)

EmptyMap == [x \in {} |-> <<>>]

\* env.aliases[key].push_back(value), the stack created when absent
PushAlias(aliases, key, value) ==
    IF key \in DOMAIN aliases
    THEN [aliases EXCEPT ![key] = Append(@, value)]
    ELSE (key :> <<value>>) @@ aliases

\* a pop_back that leaves the name in the table with its empty stack
PopAliasKeepName(aliases, key) ==
    IF key \in DOMAIN aliases /\ Len(aliases[key]) > 0
    THEN [aliases EXCEPT ![key] = SubSeq(@, 1, Len(@) - 1)]
    ELSE aliases

\* env.aliases[key].pop_back(), the name erased when its stack is empty
PopAlias(aliases, key) ==
    IF key \in DOMAIN aliases /\ Len(aliases[key]) > 1
    THEN [aliases EXCEPT ![key] = SubSeq(@, 1, Len(@) - 1)]
    ELSE [k \in DOMAIN aliases \ {key} |-> aliases[k]]

RECURSIVE PushAll(_, _, _)
PushAll(aliases, table, keys) ==
    IF keys = {} THEN aliases
    ELSE CHOOSE r \in
             { PushAll(pushed, table, rest) :
               pushed \in {PushAlias(aliases, CHOOSE k \in keys : TRUE,
                                     table[CHOOSE k \in keys : TRUE])},
               rest \in {keys \ {CHOOSE k \in keys : TRUE}} } : TRUE

RECURSIVE PopAll(_, _)
PopAll(aliases, keys) ==
    IF keys = {} THEN aliases
    ELSE CHOOSE r \in
             { PopAll(popped, rest) :
               popped \in {PopAlias(aliases, CHOOSE k \in keys : TRUE)},
               rest \in {keys \ {CHOOSE k \in keys : TRUE}} } : TRUE

\* pushScope(map, env)
pushScope(table, e) ==
    [e EXCEPT !.aliases = PushAll(@, table, DOMAIN table),
              !.scopes = Append(@, DOMAIN table)]

\* a popScope that forgets the scope and leaves the alias stacks as they are
popScopeKeepAliases(e) ==
    [e EXCEPT !.scopes = SubSeq(@, 1, Len(@) - 1)]

\* popScope(env)
popScope(e) ==
    [e EXCEPT !.aliases = PopAll(@, e.scopes[Len(e.scopes)]),
              !.scopes = SubSeq(@, 1, Len(@) - 1)]

\* the two-entry table of one loop iteration; the value name is assigned last
LoopTable(keyName, valueName, ref, key) ==
    (valueName :> Append(ref, key)) @@ (keyName :> <<Quote(key)>>)


-----------------------------------------------------------------------------
(* Source lines, already split as the scanners of the code split them: the *)
(* leading whitespace (trim), the directive, and the directive's fields.   *)

Line(kind, indent, body, keyName, valueName, hasIn, dictionaryName, shape, name, notrack) ==
    [kind |-> kind, indent |-> indent, body |-> body, keyName |-> keyName,
     valueName |-> valueName, hasIn |-> hasIn,
     dictionaryName |-> dictionaryName, shape |-> shape, name |-> name,
     notrack |-> notrack]

TextLine(indent, body) ==
    Line("text", indent, body, "", "", FALSE, <<>>, "", NoPath, FALSE)

\* #for <keyName>, <valueName> in <dictionaryName>
ForLine(indent, keyName, valueName, dictionaryName) ==
    Line("for", indent, <<>>, keyName, valueName, TRUE, dictionaryName,
         "", NoPath, FALSE)

EndForLine(indent) ==
    Line("endfor", indent, <<>>, "", "", FALSE, <<>>, "", NoPath, FALSE)

\* #include "name" (shape "quote") or #include <name> (shape "angle")
IncludeLine(indent, shape, name, notrack) ==
    Line("include", indent, <<>>, "", "", FALSE, <<>>, shape, name, notrack)

VersionLine == Line("version", "", <<>>, "", "", FALSE, <<>>, "", NoPath, FALSE)

OsLine == Line("os", "", <<>>, "", "", FALSE, <<>>, "", NoPath, FALSE)

-----------------------------------------------------------------------------
(* Paths: std::filesystem and ghoul's absPath *)

\* the working directory of the process
Cwd == "cwd"

IsAbsolute(p) == p.dir # ""

\* dir / p: an absolute p replaces dir
Join(dir, p) == IF IsAbsolute(p) THEN p ELSE Path(dir, p.name)

\* absPath(p)
absPath(p) == IF IsAbsolute(p) THEN p ELSE Path(Cwd, p.name)

\* std::filesystem::is_regular_file(p)
is_regular_file(disk, p) == absPath(p) \in DOMAIN disk

-----------------------------------------------------------------------------
(* includeFile: up to its read loop, and from the end of its read loop *)

\* Input::lineNumber as an Input is constructed
InitialLineNumber == 1

Input(path, indent) ==
    [path |-> path, pos |-> 0, lineNumber |-> InitialLineNumber,
     indentation |-> indent]

\* a registry that numbers its entries from 1
RegisterFromOne(reg, path, trackChanges) ==
    IF path \in DOMAIN reg THEN reg
    ELSE (path :> [fileIdentifier |-> Cardinality(DOMAIN reg) + 1,
                   isTracked |-> trackChanges,
                   watched |-> trackChanges]) @@ reg

\* a registry that gives the File of a new entry no callback
RegisterUnwatched(reg, path, trackChanges) ==
    IF path \in DOMAIN reg THEN reg
    ELSE (path :> [fileIdentifier |-> Cardinality(DOMAIN reg),
                   isTracked |-> trackChanges,
                   watched |-> FALSE]) @@ reg

\* a registry whose entries take the tracking of the latest include
RegisterLatest(reg, path, trackChanges) ==
    IF path \in DOMAIN reg
    THEN [reg EXCEPT ![path].isTracked = trackChanges,
                     ![path].watched = trackChanges]
    ELSE (path :> [fileIdentifier |-> Cardinality(DOMAIN reg),
                   isTracked |-> trackChanges,
                   watched |-> trackChanges]) @@ reg

\* _includedFiles.emplace(path, {File(path), _includedFiles.size(), track})
Register(reg, path, trackChanges) ==
    IF path \in DOMAIN reg THEN reg
    ELSE (path :> [fileIdentifier |-> Cardinality(DOMAIN reg),
                   isTracked |-> trackChanges,
                   watched |-> trackChanges]) @@ reg

\* an includeFile that writes no #line marker as it enters a file
includeFileEnterSilent(path, trackChanges, e) ==
    LET e1 == [e EXCEPT !.reg = Register(@, path, trackChanges)]
    IN  IF path \notin DOMAIN e.disk \/ Len(e.inputs) >= MaxDepth
        THEN [e1 EXCEPT !.err = Raise("RuntimeError", "Error loading include file",
                                      path.name, debugFile(e), debugLine(e))]
        ELSE LET prevIndent ==
                     IF Len(e.inputs) > 0
                     THEN e.inputs[Len(e.inputs)].indentation ELSE ""
                 e2 == [e1 EXCEPT !.inputs =
                            Append(@, Input(path, prevIndent \o e.indentation))]
             IN  e2

\* an includeFile that gives the new input the indentation of its #include
\* line alone
includeFileEnterOwnIndent(path, trackChanges, e) ==
    LET e1 == [e EXCEPT !.reg = Register(@, path, trackChanges)]
    IN  IF path \notin DOMAIN e.disk \/ Len(e.inputs) >= MaxDepth
        THEN [e1 EXCEPT !.err = Raise("RuntimeError", "Error loading include file",
                                      path.name, debugFile(e), debugLine(e))]
        ELSE LET e2 == [e1 EXCEPT !.inputs = Append(@, Input(path, e.indentation))]
             IN  IF Len(e2.inputs) > 1 THEN addLineNumber(e2) ELSE e2

\* includeFile(path, trackChanges, env) up to its read loop
includeFileEnter(path, trackChanges, e) ==
    LET e1 == [e EXCEPT !.reg = Register(@, path, trackChanges)]
    IN  IF path \notin DOMAIN e.disk \/ Len(e.inputs) >= MaxDepth
        THEN [e1 EXCEPT !.err = Raise("RuntimeError", "Error loading include file",
                                      path.name, debugFile(e), debugLine(e))]
        ELSE LET prevIndent ==
                     IF Len(e.inputs) > 0
                     THEN e.inputs[Len(e.inputs)].indentation ELSE ""
                 e2 == [e1 EXCEPT !.inputs =
                            Append(@, Input(path, prevIndent \o e.indentation))]
             IN  IF Len(e2.inputs) > 1 THEN addLineNumber(e2) ELSE e2

\* an end of includeFile that takes a loop for unclosed only when it was
\* opened in a file deeper than the one that ends
includeFileReturnDeeper(e) ==
    LET n == Len(e.forStatements)
        top == e.forStatements[n]
    IN  IF n > 0 /\ top.inputIndex + 1 > Len(e.inputs)
        THEN [e EXCEPT !.err =
                 [Raise("ParserError",
                        "Unexpected end of file. Still processing #for loop",
                        "", debugFile(e), debugLine(e))
                  EXCEPT !.forFile = e.inputs[top.inputIndex + 1].path,
                         !.forLine = top.lineNumber]]
        ELSE LET e1 == [e EXCEPT !.inputs = SubSeq(@, 1, Len(@) - 1)]
             IN  IF Len(e1.inputs) > 0 THEN addLineNumber(e1) ELSE e1

includeFileReturn(e) ==
    LET n == Len(e.forStatements)
        top == e.forStatements[n]
    IN  IF n > 0 /\ top.inputIndex + 1 >= Len(e.inputs)
        THEN [e EXCEPT !.err =
                 [Raise("ParserError",
                        "Unexpected end of file. Still processing #for loop",
                        "", debugFile(e), debugLine(e))
                  EXCEPT !.forFile = e.inputs[top.inputIndex + 1].path,
                         !.forLine = top.lineNumber]]
        ELSE LET e1 == [e EXCEPT !.inputs = SubSeq(@, 1, Len(@) - 1)]
             IN  IF Len(e1.inputs) > 0 THEN addLineNumber(e1) ELSE e1


-----------------------------------------------------------------------------
(* #include *)

\* the last directory of _includePaths, from index i on, that holds name
RECURSIVE LastIncludePath(_, _, _, _)
LastIncludePath(disk, paths, name, i) ==
    IF i > Len(paths) THEN 0
    ELSE LET later == LastIncludePath(disk, paths, name, i + 1)
         IN  IF later > 0 THEN later
             ELSE IF is_regular_file(disk, Join(paths[i], name)) THEN i
             ELSE 0

\* the first directory of _includePaths, from index i on, that holds name;
\* 0 when none does
RECURSIVE FirstIncludePath(_, _, _, _)
FirstIncludePath(disk, paths, name, i) ==
    IF i > Len(paths) THEN 0
    ELSE IF is_regular_file(disk, Join(paths[i], name)) THEN i
    ELSE FirstIncludePath(disk, paths, name, i + 1)

\* parseInclude(env), the line being an #include line
parseInclude(e) ==
    LET line == e.cur
        tracksInclude == ~line.notrack
        parent == e.inputs[Len(e.inputs)].path.dir
    IN  IF line.shape = "none"
        THEN Throw(e, "ParserError", "Expected file path after #include", "")
        ELSE IF line.shape = "other"
        THEN Throw(e, "ParserError", "Expected \" or <", "")
        ELSE IF line.shape = "openquote"
        THEN Throw(e, "ParserError", "Expected \"", "")
        ELSE IF line.shape = "openangle"
        THEN Throw(e, "ParserError", "Expected >", "")
        ELSE IF line.shape = "quote"
        THEN LET includeFilename == line.name
                 i == FirstIncludePath(e.disk, e.paths, includeFilename, 1)
             IN  IF is_regular_file(e.disk, Join(parent, includeFilename))
                 THEN includeFileEnter(absPath(Join(parent, includeFilename)),
                                       tracksInclude, e)
                 ELSE IF i > 0
                 THEN includeFileEnter(absPath(Join(e.paths[i], includeFilename)),
                                       tracksInclude, e)
                 ELSE IF is_regular_file(e.disk, includeFilename)
                 THEN includeFileEnter(absPath(includeFilename), tracksInclude, e)
                 ELSE [e EXCEPT !.err =
                          Raise("IncludeError", "Could not resolve file path",
                                PathText(includeFilename), NoPath, 0)]
        ELSE includeFileEnter(absPath(line.name), tracksInclude, e)

-----------------------------------------------------------------------------
(* #for and #endfor *)

ForStatement(inputIndex, lineNumber, streamPos, keyName, valueName, ref, keyIndex) ==
    [inputIndex |-> inputIndex, lineNumber |-> lineNumber,
     streamPos |-> streamPos, keyName |-> keyName, valueName |-> valueName,
     dictionaryReference |-> ref, keyIndex |-> keyIndex]

\* the segment after which ".." stands in a dotted text; 0 when there is none
RangeDots(name) ==
    IF \E j \in 2 .. (Len(name) - 1) : name[j] = ""
    THEN (CHOOSE j \in 2 .. (Len(name) - 1) :
              name[j] = "" /\ \A i \in 2 .. (j - 1) : name[i] # "") - 1
    ELSE 0

\* a range dictionary whose first value is minimum + 1
RangeDictionaryLate(minimum, maximum) ==
    [i \in 1 .. (maximum - minimum + 1) |->
        Entry(ToString(i), StrV(<<Lit(ToString(minimum + i))>>))]

\* the dictionary parseRange fills: keys "1", "2", ... with minimum, ... as text
RangeDictionary(minimum, maximum) ==
    [i \in 1 .. (maximum - minimum + 1) |->
        Entry(ToString(i), StrV(<<Lit(ToString(minimum + i - 1))>>))]

RangeName(min, max) == "(Range " \o ToString(min) \o " to " \o ToString(max) \o ")"

\* parseRange(dictionaryName, dictionary, min, max): [err, min, max, dictionary]
parseRange(dictionaryName) ==
    LET minEnd == RangeDots(dictionaryName)
        minText == Dotted(SubSeq(dictionaryName, 1, minEnd))
        maxText == Dotted(SubSeq(dictionaryName, minEnd + 2, Len(dictionaryName)))
        none == [err |-> "", min |-> 0, max |-> 0, dictionary |-> <<>>]
    IN  IF minEnd = 0 THEN [none EXCEPT !.err = "ParserError"]
        ELSE IF ~IsNumeral(minText) \/ ~IsNumeral(maxText)
        THEN [none EXCEPT !.err = "std::invalid_argument"]
        ELSE [err |-> "", min |-> stoi(minText), max |-> stoi(maxText),
              dictionary |-> RangeDictionary(stoi(minText), stoi(maxText))]

\* a parseFor that opens no scope for a loop without keys
openLoopWithKeys(e, e1, dictionaryRef, keys) ==
    [(IF Len(keys) > 0
      THEN pushScope(LoopTable(e.cur.keyName, e.cur.valueName, dictionaryRef,
                               keys[1]),
                     addLineNumber(
                       Emit(Emit(e1, OutComment("//# For loop over "
                                                \o Dotted(dictionaryRef))),
                            OutComment("//# Key " \o keys[1] \o " in "
                                       \o Dotted(dictionaryRef)))))
      ELSE Emit(e1, OutComment("//# Empty for loop")))
     EXCEPT !.forStatements =
         Append(@, ForStatement(Len(e.inputs) - 1,
                                e.inputs[Len(e.inputs)].lineNumber,
                                e.inputs[Len(e.inputs)].pos,
                                e.cur.keyName, e.cur.valueName, dictionaryRef,
                                IF Len(keys) > 0 THEN 0 ELSE -1))]

\* parseFor from the keys of the dictionary on: the comments, the scope of
\* the first key and the entry of env.forStatements.  e is env as the line
\* was read, e1 env with the dictionary as parseFor left it
openLoop(e, e1, dictionaryRef, keys) ==
    [pushScope(IF Len(keys) > 0
               THEN LoopTable(e.cur.keyName, e.cur.valueName, dictionaryRef,
                              keys[1])
               ELSE EmptyMap,
               IF Len(keys) > 0
               THEN addLineNumber(
                      Emit(Emit(e1, OutComment("//# For loop over "
                                               \o Dotted(dictionaryRef))),
                           OutComment("//# Key " \o keys[1] \o " in "
                                      \o Dotted(dictionaryRef))))
               ELSE Emit(e1, OutComment("//# Empty for loop")))
     EXCEPT !.forStatements =
         Append(@, ForStatement(Len(e.inputs) - 1,
                                e.inputs[Len(e.inputs)].lineNumber,
                                e.inputs[Len(e.inputs)].pos,
                                e.cur.keyName, e.cur.valueName, dictionaryRef,
                                IF Len(keys) > 0 THEN 0 ELSE -1))]

\* parseFor from the resolution of the dictionary's name on
forOver(e, e1, dictionaryName) ==
    CHOOSE r0 \in
        { IF r.res = "throw"
          THEN Throw(e1, "DictionaryError", "value is not a Dictionary",
                     Dotted(dictionaryName))
          ELSE IF r.res = "no"
          THEN Throw(e1, "SubstitutionError", "Could not resolve variable",
                     Dotted(dictionaryName))
          ELSE IF ~DictHasValue(e1.dict, r.out, "dict")
          THEN Throw(e1, "DictionaryError", "value is not a Dictionary",
                     Dotted(r.out))
          ELSE CHOOSE r1 \in
                   { openLoop(e, e1, r.out, keys) :
                     keys \in {DictKeys(DictValue(e1.dict, r.out))} } : TRUE :
          r \in {resolveAlias(dictionaryName, e1)} } : TRUE

\* parseFor(env), the line being a #for line
parseFor(e) ==
    IF ~e.cur.hasIn
    THEN Throw(e, "ParserError", "Expected 'in' in #for statement", "")
    ELSE IF e.cur.keyName # ""
    THEN forOver(e, e, e.cur.dictionaryName)
    ELSE CHOOSE r0 \in
             { IF range.err = "ParserError"
               THEN Throw(e, "ParserError", "Expected '..' in range",
                          Dotted(e.cur.dictionaryName))
               ELSE IF range.err # ""
               THEN Throw(e, range.err, "stoi", Dotted(e.cur.dictionaryName))
               ELSE CHOOSE r1 \in
                        { forOver(e, e1, <<RangeName(range.min, range.max)>>) :
                          e1 \in {[e EXCEPT !.dict =
                                      DictSetValue(@, RangeName(range.min,
                                                                range.max),
                                                   DictV(range.dictionary))]}
                        } : TRUE :
               range \in {parseRange(e.cur.dictionaryName)} } : TRUE

\* a parseEndFor that pops the scope before it looks at the file of the loop
parseEndForPopFirst(e) ==
    LET n == Len(e.forStatements)
        forStmnt == e.forStatements[n]
        e1 == popScope(e)
        keyIndex == forStmnt.keyIndex + 1
        ref == forStmnt.dictionaryReference
        keys == DictKeys(DictValue(e.dict, ref))
        top == Len(e.inputs)
    IN  IF n = 0
        THEN Throw(e, "ParserError",
                   "Unexpected #endfor. No corresponding #for was found", "")
        ELSE IF forStmnt.inputIndex # Len(e.inputs) - 1
        THEN [e1 EXCEPT !.success = FALSE,
                        !.err = [Raise("ParserError", "Unexpected #endfor. Last #for was in",
                                       "", debugFile(e), debugLine(e))
                                 EXCEPT !.forFile = e.inputs[forStmnt.inputIndex + 1].path,
                                        !.forLine = forStmnt.lineNumber]]
        ELSE IF ~DictHasValue(e.dict, ref, "dict")
        THEN Throw(e1, "DictionaryError", "value is not a Dictionary", Dotted(ref))
        ELSE IF keyIndex < Len(keys)
        THEN LET key == keys[keyIndex + 1]
                 e2 == pushScope(LoopTable(forStmnt.keyName, forStmnt.valueName,
                                           ref, key), e1)
                 e3 == addLineNumber(
                         Emit(e2, OutComment("//# Key " \o key \o " in "
                                             \o Dotted(ref))))
             IN  [e3 EXCEPT !.forStatements[n].keyIndex = keyIndex,
                            !.inputs[top].pos = forStmnt.streamPos,
                            !.inputs[top].lineNumber = forStmnt.lineNumber]
        ELSE LET e2 == addLineNumber(
                         Emit(e1, OutComment("//# Terminated loop over "
                                             \o Dotted(ref))))
             IN  [e2 EXCEPT !.forStatements = SubSeq(@, 1, n - 1)]

\* a parseEndFor that rewinds the stream and leaves the line counter
parseEndForKeepCounter(e) ==
    LET n == Len(e.forStatements)
        forStmnt == e.forStatements[n]
        e1 == popScope(e)
        keyIndex == forStmnt.keyIndex + 1
        ref == forStmnt.dictionaryReference
        keys == DictKeys(DictValue(e.dict, ref))
        top == Len(e.inputs)
    IN  IF n = 0
        THEN Throw(e, "ParserError",
                   "Unexpected #endfor. No corresponding #for was found", "")
        ELSE IF forStmnt.inputIndex # Len(e.inputs) - 1
        THEN [e EXCEPT !.success = FALSE,
                       !.err = [Raise("ParserError", "Unexpected #endfor. Last #for was in",
                                      "", debugFile(e), debugLine(e))
                                EXCEPT !.forFile = e.inputs[forStmnt.inputIndex + 1].path,
                                       !.forLine = forStmnt.lineNumber]]
        ELSE IF ~DictHasValue(e.dict, ref, "dict")
        THEN Throw(e1, "DictionaryError", "value is not a Dictionary", Dotted(ref))
        ELSE IF keyIndex < Len(keys)
        THEN LET key == keys[keyIndex + 1]
                 e2 == pushScope(LoopTable(forStmnt.keyName, forStmnt.valueName,
                                           ref, key), e1)
                 e3 == addLineNumber(
                         Emit(e2, OutComment("//# Key " \o key \o " in "
                                             \o Dotted(ref))))
             IN  [e3 EXCEPT !.forStatements[n].keyIndex = keyIndex,
                            !.inputs[top].pos = forStmnt.streamPos]
        ELSE LET e2 == addLineNumber(
                         Emit(e1, OutComment("//# Terminated loop over "
                                             \o Dotted(ref))))
             IN  [e2 EXCEPT !.forStatements = SubSeq(@, 1, n - 1)]

\* parseEndFor(env), the line being an #endfor line
parseEndFor(e) ==
    LET n == Len(e.forStatements)
        forStmnt == e.forStatements[n]
        e1 == popScope(e)
        keyIndex == forStmnt.keyIndex + 1
        ref == forStmnt.dictionaryReference
        keys == DictKeys(DictValue(e.dict, ref))
        top == Len(e.inputs)
    IN  IF n = 0
        THEN Throw(e, "ParserError",
                   "Unexpected #endfor. No corresponding #for was found", "")
        ELSE IF forStmnt.inputIndex # Len(e.inputs) - 1
        THEN [e EXCEPT !.success = FALSE,
                       !.err = [Raise("ParserError", "Unexpected #endfor. Last #for was in",
                                      "", debugFile(e), debugLine(e))
                                EXCEPT !.forFile = e.inputs[forStmnt.inputIndex + 1].path,
                                       !.forLine = forStmnt.lineNumber]]
        ELSE IF ~DictHasValue(e.dict, ref, "dict")
        THEN Throw(e1, "DictionaryError", "value is not a Dictionary", Dotted(ref))
        ELSE IF keyIndex < Len(keys)
        THEN LET key == keys[keyIndex + 1]
                 e2 == pushScope(LoopTable(forStmnt.keyName, forStmnt.valueName,
                                           ref, key), e1)
                 e3 == addLineNumber(
                         Emit(e2, OutComment("//# Key " \o key \o " in "
                                             \o Dotted(ref))))
             IN  [e3 EXCEPT !.forStatements[n].keyIndex = keyIndex,
                            !.inputs[top].pos = forStmnt.streamPos,
                            !.inputs[top].lineNumber = forStmnt.lineNumber]
        ELSE LET e2 == addLineNumber(
                         Emit(e1, OutComment("//# Terminated loop over "
                                             \o Dotted(ref))))
             IN  [e2 EXCEPT !.forStatements = SubSeq(@, 1, n - 1)]


-----------------------------------------------------------------------------
(* The line scanner *)

\* Env as process() constructs it
NewEnv ==
    [inputs |-> <<>>, forStatements |-> <<>>, scopes |-> <<>>,
     aliases |-> EmptyMap, output |-> <<>>, line |-> <<>>,
     indentation |-> "", success |-> TRUE]

\* the environment of a call: Env, the members of the preprocessor it reads
\* and writes, the disk, and the exception thrown so far
Call(en, dict, reg, disk, paths) ==
    [inputs |-> en.inputs, forStatements |-> en.forStatements,
     scopes |-> en.scopes, aliases |-> en.aliases, output |-> en.output,
     line |-> en.line, indentation |-> en.indentation, success |-> en.success,
     dict |-> dict, reg |-> reg, disk |-> disk, paths |-> paths,
     cur |-> VersionLine, err |-> NoError, spins |-> FALSE]

EnvOf(e) ==
    [inputs |-> e.inputs, forStatements |-> e.forStatements,
     scopes |-> e.scopes, aliases |-> e.aliases, output |-> e.output,
     line |-> e.line, indentation |-> e.indentation, success |-> e.success]

\* a test that takes a loop in its first iteration for a loop without keys
isInsideFirstIteration(e) ==
    /\ Len(e.forStatements) > 0
    /\ e.forStatements[Len(e.forStatements)].keyIndex = 0

\* isInsideEmptyForStatement(env)
isInsideEmptyForStatement(e) ==
    /\ Len(e.forStatements) > 0
    /\ e.forStatements[Len(e.forStatements)].keyIndex = -1

\* ghoul::getline(input.stream, env.line) has a line to give
HasLine(e) ==
    /\ Len(e.inputs) > 0
    /\ e.inputs[Len(e.inputs)].pos < Len(e.disk[e.inputs[Len(e.inputs)].path])

\* parseVersion(env), the line being "#version __CONTEXT__"
parseVersion(e) == Emit(e, OutVersion)

\* parseOs(env), the line being "#define __OS__"
parseOs(e) == addLineNumber(Emit(e, OutOs))

\* the line that getline gives next
ReadLine(e) ==
    e.disk[e.inputs[Len(e.inputs)].path][e.inputs[Len(e.inputs)].pos + 1]

\* ghoul::getline gave a line: the stream and the line counter move on
getline(e) ==
    [e EXCEPT !.inputs[Len(e.inputs)].pos = @ + 1,
              !.inputs[Len(e.inputs)].lineNumber = @ + 1,
              !.line = ReadLine(e).body,
              !.indentation = ReadLine(e).indent,
              !.cur = ReadLine(e)]

\* the directives of parseLine that are tried after the substitution
parseDirective(e) ==
    IF e.cur.kind = "endfor" THEN e
    ELSE IF e.cur.kind = "version" THEN parseVersion(e)
    ELSE IF e.cur.kind = "os" THEN parseOs(e)
    ELSE IF e.cur.kind = "include" THEN parseInclude(e)
    ELSE IF e.cur.kind = "for" THEN parseFor(e)
    ELSE Emit(e, OutText(e.inputs[Len(e.inputs)].indentation
                         \o e.indentation \o Flat(e.line)))

\* parseLine(env) when getline gave a line.  Each stage is bound as the one
\* member of a set, so that it is computed once
parseLine(e) ==
    CHOOSE r \in
        { IF e2.err.type # "none" THEN e2
          ELSE IF isInsideEmptyForStatement(e2) THEN e2
          ELSE CHOOSE r3 \in
                   { IF e3.err.type # "none" \/ e3.spins THEN e3
                     ELSE parseDirective(e3) :
                     e3 \in {substituteLine(e2)} } : TRUE :
          e2 \in { CHOOSE r1 \in
                       { IF e1.cur.kind = "endfor" THEN parseEndFor(e1)
                         ELSE e1 : e1 \in {getline(e)} } : TRUE } } : TRUE


-----------------------------------------------------------------------------
(* The inputs of the model: source files, dictionaries, include folders *)

SeqsUpTo(A, n) == UNION {[1 .. m -> A] : m \in 0 .. n}

Root == Path("s", "main")

\* the dictionary handed to the preprocessor
StdDict ==
    << Entry("d", DictV(<< Entry("a", IntV(5)), Entry("b", BoolV(TRUE)) >>)),
       Entry("e", DictV(<< >>)),
       Entry("flag", BoolV(TRUE)),
       Entry("off", BoolV(FALSE)),
       Entry("name", StrV(<<Lit("abc")>>)),
       Entry("count", IntV(5)),
       Entry("ratio", DoubleV(2, <<5>>)),
       Entry("pos", VecV("ivec2", <<1, 2>>)),
       Entry("cell", VecV("ivec3", <<1, 2, 3>>)),
       Entry("uv", VecV("dvec2", <<[i |-> 1, d |-> <<>>], [i |-> 2, d |-> <<5>>]>>)),
       Entry("xyz", VecV("dvec3", <<[i |-> 0, d |-> <<>>], [i |-> 1, d |-> <<>>],
                                    [i |-> 2, d |-> <<2, 5>>]>>)),
       Entry("mat", OtherV) >>

\* a caller's dictionary that already holds the name of a range
RangeDict(min, max) ==
    Append(StdDict,
           Entry(RangeName(min, max),
                 DictV(<< Entry("1", StrV(<<Lit("one")>>)) >>)))

\* lines of the loop family
TextX == TextLine("", <<Lit("x")>>)
TextV == TextLine("", <<Sub(<<"v">>)>>)
TextKV == TextLine("", <<Sub(<<"k">>), Lit("="), Sub(<<"v">>)>>)
ForD == ForLine("", "k", "v", <<"d">>)
ForE == ForLine("", "k", "v", <<"e">>)
ForRange(min, max) == ForLine("", "", "v", <<ToString(min), "", ToString(max)>>)
EndFor == EndForLine("")

LoopLines == {TextX, TextV, TextKV, ForD, ForE, ForRange(1, 2), EndFor}

\* a token that names an entry of a range dictionary
TextRange(min, max) == TextLine("", <<Sub(<<RangeName(min, max), "1">>)>>)

\* lines and files of the include families
IncQ(name) == IncludeLine("", "quote", name, FALSE)
IncA(name) == IncludeLine("", "angle", name, FALSE)

IncludeLines == {TextX, ForD, EndFor, IncQ(Path("", "a"))}

ResolveRoots ==
    { <<IncQ(Path("", "a"))>>, <<IncQ(Path("i2", "a"))>>, <<IncA(Path("i1", "a"))>> }

\* the folders handed to addIncludePath, each holding a file
IncludeDirs == {"i1", "i2"}

Keep == [p \in {Path(dir, "keep") : dir \in IncludeDirs} |-> <<>>]

FileA(dir) == <<TextLine("", <<Lit("a of " \o dir)>>), IncQ(Path("", "b"))>>

FileB(dir) == <<TextLine("", <<Lit("b of " \o dir)>>)>>

\* std::filesystem::is_directory(dir)
is_directory(disk, dir) == \E p \in DOMAIN disk : p.dir = dir

\* #for lines that parseFor does not take: without "in", without a key name
\* and not a range of two numerals, over a value that is no dictionary, over a
\* quoted literal, over a name the dictionary does not hold
BadFors ==
    { Line("for", "", <<>>, "k", "v", FALSE, <<"d">>, "", NoPath, FALSE),
      ForLine("", "", "v", <<"d">>),
      ForLine("", "", "v", <<"x", "", "2">>),
      ForLine("", "", "v", <<"1", "", "">>),
      ForLine("", "k", "v", <<"count">>),
      ForLine("", "k", "v", <<Quote("a")>>),
      ForLine("", "k", "v", <<"nokey">>),
      ForLine("", "k", "v", <<"count", "a">>) }

\* "#{" with no "}" after it
Open == [t |-> "open", s |-> "#{", tok |-> <<>>]

\* lines that fail where they are dispatched: a token the dictionary does
\* not hold, a token that is not closed, includes of files that do not
\* exist, an #include without a path, a #for without "in"
FailingLines ==
    { TextLine("", <<Sub(<<"nokey">>)>>),
      TextLine("", <<Lit("x"), Open>>),
      IncQ(Path("", "missing")),
      IncA(Path("s", "missing")),
      IncludeLine("", "none", NoPath, FALSE),
      Line("for", "", <<>>, "k", "v", FALSE, <<"d">>, "", NoPath, FALSE) }

\* #include "name":notrack
IncNT(name) == IncludeLine("", "quote", name, TRUE)

\* root files that include a file first with and first without :notrack
TrackRoots ==
    { <<IncQ(Path("", "a")), IncNT(Path("", "a"))>>,
      <<IncNT(Path("", "a")), IncQ(Path("", "a"))>>,
      <<IncNT(Path("", "b")), IncQ(Path("", "a"))>>,
      <<IncQ(Path("", "a"))>> }

\* a second shader file for setFilename
Alt == Path("s", "alt")

\* the program of the tracking family: its callbacks, the file names and the
\* dictionaries it sets, the files that change on its disk
TrackClient ==
    [callbacks |-> {"f", "g"}, filenames |-> {Root, Alt},
     dictionaries |-> {StdDict, <<>>},
     changes |-> {Path("s", "a"), Path("s", "b")}]

\* a dictionary with strings that hold tokens: ref names count, ping and
\* pong name each other
TokenDict ==
    StdDict \o << Entry("ref", StrV(<<Sub(<<"count">>)>>)),
                  Entry("ping", StrV(<<Sub(<<"pong">>)>>)),
                  Entry("pong", StrV(<<Sub(<<"ping">>)>>)) >>

\* files that include the root file again: the root file itself, or the file
\* a that the root file includes
SelfIncludes ==
    { (Root :> <<TextX, IncA(Root)>>),
      (Root :> <<IncQ(Path("", "a"))>>) @@ (Path("s", "a") :> <<TextX, IncA(Root)>>) }

\* tokens of the substitution family
Tokens ==
    { <<"flag">>, <<"off">>, <<"name">>, <<"count">>, <<"ratio">>, <<"pos">>,
      <<"cell">>, <<"uv">>, <<"xyz">>, <<"mat">>, <<"d">>, <<"d", "a">>,
      <<"d", "c">>, <<"nokey">>, <<"nokey", "a">>, <<"count", "a">>,
      <<Quote("a")>> }


-----------------------------------------------------------------------------
(* What a pass should write for a source of one file: every loop body once *)
(* per key, the loops matched by their nesting in the text.                *)

\* the nesting depth after each line; -1 once an #endfor has no #for
RECURSIVE DepthAfter(_, _)
DepthAfter(lines, i) ==
    IF i = 0 THEN 0
    ELSE LET before == DepthAfter(lines, i - 1)
         IN  IF before < 0 THEN -1
             ELSE IF lines[i].kind = "for" THEN before + 1
             ELSE IF lines[i].kind = "endfor" THEN before - 1
             ELSE before

\* each #for has its #endfor, each #endfor its #for
WellFormed(lines) == DepthAfter(lines, Len(lines)) = 0

\* the line of the #endfor that closes the #for of line i
MatchingEndFor(lines, i) ==
    CHOOSE m \in (i + 1) .. Len(lines) :
        /\ DepthAfter(lines, m) = DepthAfter(lines, i) - 1
        /\ \A j \in (i + 1) .. (m - 1) : DepthAfter(lines, j) >= DepthAfter(lines, i)

\* the text of a stored value
ValueText(x) ==
    IF x.t = "bool" THEN IF x.v THEN "1" ELSE "0"
    ELSE IF x.t = "string" THEN Flat(x.v)
    ELSE IF x.t = "int" THEN ToString(x.v)
    ELSE "?"

\* the dictionary a #for line loops over, the bound names standing for values
LoopDictionary(line, bind, dict) ==
    IF line.keyName = ""
    THEN RangeDictionary(stoi(line.dictionaryName[1]), stoi(line.dictionaryName[3]))
    ELSE DictValue(dict, line.dictionaryName)

\* a text line with its tokens replaced by what the bound names stand for
RECURSIVE BoundText(_, _)
BoundText(body, bind) ==
    IF Len(body) = 0 THEN ""
    ELSE (IF body[1].t = "lit" THEN body[1].s ELSE bind[body[1].tok[1]])
         \o BoundText(Tail(body), bind)

AllBound(body, bind) ==
    \A i \in 1 .. Len(body) :
        body[i].t = "lit" \/ (Len(body[i].tok) = 1 /\ body[i].tok[1] \in DOMAIN bind)

\* lines from .. to written under the bindings bind: [out, ok], ok false once
\* a token stands for nothing
RECURSIVE Expand(_, _, _, _, _)
RECURSIVE ExpandKeys(_, _, _, _, _, _, _)
Expand(lines, from, to, bind, dict) ==
    IF from > to THEN [out |-> <<>>, ok |-> TRUE]
    ELSE LET line == lines[from]
         IN  IF line.kind = "text"
             THEN IF AllBound(line.body, bind)
                  THEN LET rest == Expand(lines, from + 1, to, bind, dict)
                       IN  [out |-> <<BoundText(line.body, bind)>> \o rest.out,
                            ok |-> rest.ok]
                  ELSE [out |-> <<>>, ok |-> FALSE]
             ELSE LET m == MatchingEndFor(lines, from)
                      body == ExpandKeys(lines, from, m, bind, dict,
                                         LoopDictionary(line, bind, dict), 1)
                      rest == Expand(lines, m + 1, to, bind, dict)
                  IN  IF body.ok
                      THEN [out |-> body.out \o rest.out, ok |-> rest.ok]
                      ELSE body

\* the body of the loop of lines for .. end, once for each key from the i-th on
ExpandKeys(lines, for, end, bind, dict, loop, i) ==
    IF i > Len(loop) THEN [out |-> <<>>, ok |-> TRUE]
    ELSE LET line == lines[for]
             bound == (line.valueName :> ValueText(loop[i].v))
                          @@ (line.keyName :> loop[i].k) @@ bind
             this == Expand(lines, for + 1, end - 1, bound, dict)
             rest == ExpandKeys(lines, for, end, bind, dict, loop, i + 1)
         IN  IF this.ok
             THEN [out |-> this.out \o rest.out, ok |-> rest.ok]
             ELSE this

\* the text lines among the lines written so far
RECURSIVE TextOf(_)
TextOf(out) ==
    IF Len(out) = 0 THEN <<>>
    ELSE (IF out[1].k = "text" THEN <<out[1].s>> ELSE <<>>) \o TextOf(Tail(out))

IsPrefix(s, t) == Len(s) <= Len(t) /\ SubSeq(t, 1, Len(s)) = s

\* a well-formed source of one file, of text lines and of the loops of
\* LoopLines, whose tokens are the names k and v that its loops bind
LoopSource ==
    /\ DOMAIN files = {Root}
    /\ \A i \in 1 .. Len(files[Root]) :
           /\ files[Root][i].kind \in {"text", "for", "endfor"}
           /\ files[Root][i].kind = "text" =>
                  \A j \in 1 .. Len(files[Root][i].body) :
                      \/ files[Root][i].body[j].t = "lit"
                      \/ files[Root][i].body[j].tok \in {<<"k">>, <<"v">>}
           /\ files[Root][i].kind = "for" => files[Root][i] \in LoopLines
    /\ WellFormed(files[Root])

Expected == Expand(files[Root], 1, Len(files[Root]), EmptyMap, StdDict)


-----------------------------------------------------------------------------
(* Initial states *)

\* a program that only calls process()
NoClient == [callbacks |-> {}, filenames |-> {}, dictionaries |-> {}, changes |-> {}]

\* the processes that use the segment
Procs == 1 .. MaxProcs

\* no process has created the segment yet
NoSegment ==
    /\ segment = "none"
    /\ mutex = FALSE
    /\ procs = [p \in Procs |-> "start"]

\* the TextureUnit objects of the program
Objects == 1 .. MaxObjects

\* SystemCapabilities that has not been initialized
NoCapabilities == [isInitialized |-> FALSE, maxTextureUnits |-> 0]

\* the statics of TextureUnit before the first object is constructed
NoUnits ==
    /\ isInitialized = FALSE
    /\ totalActive = 0
    /\ maxTexUnits = 0
    /\ busyUnits = <<>>
    /\ units = [o \in Objects |-> [state |-> "unborn", assigned |-> FALSE,
                                   number |-> 0]]
    /\ unitError = ""

\* a preprocessor constructed on the root file, nothing processed yet and no
\* callback set
Constructed(disk, dict, program) ==
    /\ files = disk
    /\ dictionary = dict
    /\ includePaths = <<>>
    /\ shaderPath = Root
    /\ includedFiles = EmptyMap
    /\ pc = "idle"
    /\ env = NewEnv
    /\ error = NoError
    /\ output = <<>>
    /\ results = <<>>
    /\ onChangeCallback = ""
    /\ log = <<>>
    /\ client = program

\* a program that owns a preprocessor and uses neither a shared-memory
\* segment nor a texture unit
Owned(disk, dict, program) ==
    /\ Constructed(disk, dict, program)
    /\ NoSegment
    /\ NoUnits
    /\ capabilities = NoCapabilities

Fresh(disk, dict) == Owned(disk, dict, NoClient)

\* loops in one file
InitLoops ==
    \E root \in SeqsUpTo(LoopLines, MaxLen) :
        Fresh((Root :> root), StdDict)

\* one token on one line
InitTokens ==
    \E tok \in Tokens :
        Fresh((Root :> <<TextLine("  ", <<Lit("u = "), Sub(tok), Lit(";")>>)>>),
              StdDict)

\* range loops, with and without the range's name in the caller's dictionary
InitRange ==
    \E min \in -1 .. MaxRange, max \in -1 .. MaxRange :
        \/ Fresh((Root :> <<ForRange(min, max), TextV, EndFor>>), StdDict)
        \/ Fresh((Root :> <<TextRange(min, max), ForRange(min, max), TextV, EndFor>>),
                 RangeDict(min, max))

\* quoted and bracketed includes over the folders a file can be found in
InitResolve ==
    \E root \in ResolveRoots, as \in SUBSET {"s", "i1", "i2", Cwd},
       bs \in SUBSET {"s", "i1"} :
        Fresh((Root :> root) @@ Keep
                  @@ [p \in {Path(dir, "a") : dir \in as} |-> FileA(p.dir)]
                  @@ [p \in {Path(dir, "b") : dir \in bs} |-> FileB(p.dir)],
              StdDict)

\* loops and includes: a root file that includes the file a
InitInclude ==
    \E root \in SeqsUpTo(IncludeLines, MaxIncRoot),
       a \in SeqsUpTo({TextX, ForD, EndFor}, MaxIncLen) :
        /\ \E i \in 1 .. Len(root) : root[i].kind = "include"
        /\ Fresh((Root :> root) @@ (Path("s", "a") :> a), StdDict)

\* strings that hold tokens
InitStrings ==
    \E tok \in {<<"ref">>, <<"ping">>} :
        Fresh((Root :> <<TextX, TextLine("", <<Sub(tok)>>), TextX>>), TokenDict)

\* files that include themselves
InitSelf == \E disk \in SelfIncludes : Fresh(disk, StdDict)

\* a #for line that parseFor does not take, first in the file or in a loop
InitFor ==
    \E for \in BadFors :
        \/ Fresh((Root :> <<for, TextX, EndFor>>), StdDict)
        \/ Fresh((Root :> <<ForD, for, EndFor, EndFor>>), StdDict)

\* a program that sets callbacks, file names and dictionaries, on files whose
\* includes are tracked and not tracked, and that change on the disk
InitTrack ==
    \E root \in TrackRoots :
        Owned((Root :> root) @@ (Alt :> <<IncNT(Path("", "a")), IncQ(Path("", "b"))>>)
                  @@ (Path("s", "a") :> <<TextX>>) @@ (Path("s", "b") :> <<TextX>>),
              StdDict, TrackClient)

\* failing lines in the body of a loop without keys, and on their own
InitSkipped ==
    \E body \in SeqsUpTo(FailingLines \cup {TextX}, MaxSkipped) :
        \/ Fresh((Root :> <<ForE>> \o body \o <<EndFor, TextX>>), StdDict)
        \/ Len(body) = 1 /\ Fresh((Root :> body), StdDict)

\* a dictionary whose strings hold tokens, text around tokens, and a "#{"
\* that nothing closes
SpliceDict ==
    StdDict \o << Entry("ref", StrV(<<Sub(<<"count">>)>>)),
                  Entry("two", StrV(<<Sub(<<"ref">>), Lit("+"), Sub(<<"count">>)>>)),
                  Entry("half", StrV(<<Lit("y"), Open>>)) >>

\* the pieces of the lines of the splice family
Pieces ==
    { Lit("x"), Sub(<<"count">>), Sub(<<"ref">>), Sub(<<"two">>), Sub(<<"half">>),
      Sub(<<"nokey">>), Open }

\* one line of pieces, literal text and tokens in every order
InitSplice ==
    \E body \in SeqsUpTo(Pieces, MaxPieces) :
        Fresh((Root :> <<TextLine("", body)>>), SpliceDict)

\* a dictionary with a dictionary inside a dictionary: n.a.b
NestDict ==
    StdDict \o << Entry("n", DictV(<< Entry("a", DictV(<< Entry("b", IntV(7)) >>)) >>)) >>

\* tokens of one, two, three and four segments
NestTokens ==
    { <<"k">>, <<"v">>, <<"n">>, <<"k", "b">>, <<"v", "b">>, <<"a", "b">>,
      <<"a", "c">>, <<"n", "a">>, <<"n", "a", "b">>, <<"n", "a", "c">>,
      <<"n", "b", "b">>, <<"d", "a", "b">>, <<"count", "a", "b">>,
      <<"n", "a", "b", "c">> }

\* one token in a loop over n whose value name is v, or a, a key of n
InitNested ==
    \E valueName \in {"v", "a"}, tok \in NestTokens :
        Fresh((Root :> << ForLine("", "k", valueName, <<"n">>),
                          TextLine("", <<Sub(tok)>>), EndFor >>),
              NestDict)

\* #for v, v in d: the key name is the value name
ForSame == ForLine("", "v", "v", <<"d">>)

\* a loop in a loop, over the loops with keys, without keys, over a range and
\* with one name for key and value
InitScopes ==
    \E outer \in {ForD, ForE, ForRange(1, 2), ForSame},
       inner \in {ForD, ForE, ForRange(1, 2), ForSame} :
        Fresh((Root :> <<outer, inner, TextV, EndFor, TextV, EndFor>>), StdDict)

\* leading whitespace of a line: none, a blank, a tab
Indents == {"", " ", "\t"}

\* the root file includes a, a includes b, the #include lines and the lines
\* of text indented
InitIndent ==
    \E inRoot \in Indents, inA \in Indents, own \in {"", "  "} :
        Fresh((Root :> << TextLine(own, <<Lit("x")>>),
                          IncludeLine(inRoot, "quote", Path("", "a"), FALSE),
                          TextLine(own, <<Lit("x")>>) >>)
                  @@ (Path("s", "a") :>
                        << TextLine(own, <<Lit("x")>>),
                           IncludeLine(inA, "quote", Path("", "b"), FALSE),
                           TextLine(own, <<Lit("x")>>) >>)
                  @@ (Path("s", "b") :> <<TextLine(own, <<Lit("x")>>)>>),
              StdDict)

Init ==
    \/ InitLoops
    \/ InitTokens
    \/ InitRange
    \/ InitResolve
    \/ InitInclude
    \/ InitStrings
    \/ InitSelf
    \/ InitFor
    \/ InitTrack
    \/ InitSkipped
    \/ InitSplice
    \/ InitNested
    \/ InitScopes
    \/ InitIndent

-----------------------------------------------------------------------------
(* Actions *)

\* a process() that hands the caller what was written when it throws
CommitPartial(e) ==
    /\ env' = EnvOf(e)
    /\ dictionary' = e.dict
    /\ includedFiles' = e.reg
    /\ UNCHANGED <<sharedMemory, textureUnits>>
    /\ UNCHANGED <<files, includePaths, shaderPath, hooks>>
    /\ IF e.err.type # "none"
       THEN /\ pc' = "error"
            /\ error' = e.err
            /\ results' = Append(results, [ok |-> FALSE, out |-> <<>>])
            /\ output' = e.output
       ELSE IF e.spins
       THEN \* substituteLine does not return
            /\ pc' = "substituting"
            /\ error' = NoError
            /\ UNCHANGED <<output, results>>
       ELSE IF Len(e.inputs) = 0
       THEN \* includeFile returned to process(): both checks passed
            /\ pc' = "done"
            /\ error' = NoError
            /\ output' = e.output
            /\ results' = Append(results, [ok |-> TRUE, out |-> e.output])
       ELSE /\ pc' = "running"
            /\ error' = NoError
            /\ UNCHANGED <<output, results>>

\* what a step of process() leaves behind: the environment, the members it
\* wrote and, when it threw, the exception
Commit(e) ==
    /\ env' = EnvOf(e)
    /\ dictionary' = e.dict
    /\ includedFiles' = e.reg
    /\ UNCHANGED <<sharedMemory, textureUnits>>
    /\ UNCHANGED <<files, includePaths, shaderPath, hooks>>
    /\ IF e.err.type # "none"
       THEN /\ pc' = "error"
            /\ error' = e.err
            /\ results' = Append(results, [ok |-> FALSE, out |-> <<>>])
            /\ UNCHANGED output
       ELSE IF e.spins
       THEN \* substituteLine does not return
            /\ pc' = "substituting"
            /\ error' = NoError
            /\ UNCHANGED <<output, results>>
       ELSE IF Len(e.inputs) = 0
       THEN \* includeFile returned to process(): both checks passed
            /\ pc' = "done"
            /\ error' = NoError
            /\ output' = e.output
            /\ results' = Append(results, [ok |-> TRUE, out |-> e.output])
       ELSE /\ pc' = "running"
            /\ error' = NoError
            /\ UNCHANGED <<output, results>>

\* the checks of process() after includeFile returned
processTail(e) ==
    IF e.err.type # "none" \/ Len(e.inputs) > 0 THEN e
    ELSE IF Len(e.forStatements) > 0
    THEN Throw(e, "ParserError",
               "Unexpected end of file in the middle of expanding #for statement", "")
    ELSE IF Len(e.scopes) > 0
    THEN Throw(e, "ParserError", "Unexpected end of file", "")
    ELSE e

\* process(output), up to the first line of the root file
Process ==
    /\ pc \in {"idle", "done", "error"}
    /\ Len(results) < MaxPasses
    /\ \E e0 \in {Call(NewEnv, dictionary, includedFiles, files,
                        includePaths)} :
           \E e \in {includeFileEnter(absPath(shaderPath), TRUE, e0)} :
               Commit(e)

\* one turn of the read loop of includeFile: parseLine read a line
ParseLine ==
    /\ pc = "running"
    /\ \E e0 \in {Call(env, dictionary, includedFiles, files, includePaths)} :
           /\ HasLine(e0)
           /\ \E e \in {parseLine(e0)} : Commit(e)

\* parseLine found the end of the file: includeFile returns to its caller
EndOfFile ==
    /\ pc = "running"
    /\ \E e0 \in {Call(env, dictionary, includedFiles, files, includePaths)} :
           /\ ~HasLine(e0)
           /\ \E e1 \in {includeFileReturn(e0)} :
                  \E e \in {processTail(e1)} : Commit(e)

\* a further turn of the while loop of substituteLine, in a loop that spins
SubstituteAgain ==
    /\ pc = "substituting"
    /\ \E e0 \in {Call(env, dictionary, includedFiles, files, includePaths)} :
           \E e \in {spliceToken(e0)} : env' = EnvOf(e)
    /\ UNCHANGED <<sharedMemory, textureUnits>>
    /\ UNCHANGED <<files, includePaths, shaderPath, dictionary, includedFiles,
                   pc, error, output, results, hooks>>

\* the next line is an #include that finds its file
IncludeFound(e) ==
    /\ HasLine(e)
    /\ ~isInsideEmptyForStatement(e)
    /\ e.disk[e.inputs[Len(e.inputs)].path][e.inputs[Len(e.inputs)].pos + 1].kind
           = "include"
    /\ \/ /\ e.disk[e.inputs[Len(e.inputs)].path]
                    [e.inputs[Len(e.inputs)].pos + 1].shape = "angle"
          /\ is_regular_file(e.disk,
                  e.disk[e.inputs[Len(e.inputs)].path]
                        [e.inputs[Len(e.inputs)].pos + 1].name)
       \/ /\ e.disk[e.inputs[Len(e.inputs)].path]
                    [e.inputs[Len(e.inputs)].pos + 1].shape = "quote"
          /\ \E dir \in {e.inputs[Len(e.inputs)].path.dir, ""}
                        \cup {e.paths[i] : i \in 1 .. Len(e.paths)} :
                 is_regular_file(e.disk,
                     Join(dir, e.disk[e.inputs[Len(e.inputs)].path]
                                     [e.inputs[Len(e.inputs)].pos + 1].name))

\* an #include at the deepest nesting the process has room for, on a build
\* whose call stack is used up before its file descriptors: the process dies
StackExhausted ==
    /\ pc = "running"
    /\ Len(env.inputs) >= MaxDepth
    /\ \E e0 \in {Call(env, dictionary, includedFiles, files, includePaths)} :
           IncludeFound(e0)
    /\ pc' = "crashed"
    /\ UNCHANGED <<sharedMemory, textureUnits>>
    /\ UNCHANGED <<files, includePaths, shaderPath, dictionary, includedFiles,
                   env, error, output, results, hooks>>

\* no pass is running: the program calls the preprocessor from one thread
Idle == pc \in {"idle", "done", "error"}

\* an entry of the log: the operation, the file it is about, the function
\* that was set or invoked ("" when none was invoked)
LogEntry(op, path, fn) == [op |-> op, path |-> path, fn |-> fn]

\* the loop of setCallback over _includedFiles: the File of every tracked
\* entry is given the callback that forwards to _onChangeCallback
forwardToTracked(reg) ==
    [p \in DOMAIN reg |->
        IF reg[p].isTracked THEN [reg[p] EXCEPT !.watched = TRUE] ELSE reg[p]]

\* setCallback(changeCallback)
SetCallback(changeCallback) ==
    /\ Idle
    /\ Len(log) < MaxCalls
    /\ onChangeCallback' = changeCallback
    /\ includedFiles' = forwardToTracked(includedFiles)
    /\ log' = Append(log, LogEntry("setCallback", NoPath, changeCallback))
    /\ UNCHANGED <<sharedMemory, textureUnits>>
    /\ UNCHANGED <<files, includePaths, shaderPath, dictionary, pc, env, error,
                   output, results, client>>

\* if (_onChangeCallback) _onChangeCallback(), called by the mutator op
invokeIfSet(op, path) ==
    IF onChangeCallback # ""
    THEN log' = Append(log, LogEntry(op, path, onChangeCallback))
    ELSE log' = log

\* setFilename(path)
SetFilename(path) ==
    /\ Idle
    /\ Len(log) < MaxCalls
    /\ IF shaderPath # path
       THEN shaderPath' = path /\ invokeIfSet("setFilename", path)
       ELSE UNCHANGED <<shaderPath, log>>
    /\ UNCHANGED <<sharedMemory, textureUnits>>
    /\ UNCHANGED <<files, includePaths, dictionary, includedFiles, pc, env, error,
                   output, results, onChangeCallback, client>>

\* setDictionary(dict)
SetDictionary(dict) ==
    /\ Idle
    /\ Len(log) < MaxCalls
    /\ dictionary' = dict
    /\ invokeIfSet("setDictionary", NoPath)
    /\ UNCHANGED <<sharedMemory, textureUnits>>
    /\ UNCHANGED <<files, includePaths, shaderPath, includedFiles, pc, env, error,
                   output, results, onChangeCallback, client>>

\* what the File of a registry entry invokes when its file has changed: its
\* callback, the lambda [this]() { _onChangeCallback(); }, when it holds one
notify(reg, path) ==
    IF ~reg[path].watched THEN ""
    ELSE IF onChangeCallback # "" THEN onChangeCallback
    ELSE "std::bad_function_call"

\* the file watcher reports that a registered file has changed
FileChanged(path) ==
    /\ Idle
    /\ Len(log) < MaxCalls
    /\ path \in DOMAIN includedFiles
    /\ log' = Append(log, LogEntry("watcher", path, notify(includedFiles, path)))
    /\ UNCHANGED <<sharedMemory, textureUnits>>
    /\ UNCHANGED <<files, includePaths, shaderPath, dictionary, includedFiles,
                   pc, env, error, output, results, onChangeCallback, client>>

\* an addIncludePath that does not look for the folder in the list
AddIncludePathAgain(folderPath) ==
    /\ pc = "idle"
    /\ is_directory(files, folderPath)
    /\ Len(includePaths) < 3
    /\ includePaths' = Append(includePaths, folderPath)
    /\ UNCHANGED <<sharedMemory, textureUnits>>
    /\ UNCHANGED <<files, shaderPath, dictionary, includedFiles, pc, env, error,
                   output, results, hooks>>

\* addIncludePath(folderPath), called while the program sets up
AddIncludePath(folderPath) ==
    /\ pc = "idle"
    /\ is_directory(files, folderPath)
    /\ includePaths' =
           IF \E i \in 1 .. Len(includePaths) : includePaths[i] = folderPath
           THEN includePaths
           ELSE Append(includePaths, folderPath)
    /\ UNCHANGED <<sharedMemory, textureUnits>>
    /\ UNCHANGED <<files, shaderPath, dictionary, includedFiles, pc, env, error,
                   output, results, hooks>>

Next ==
    \/ Process
    \/ ParseLine
    \/ EndOfFile
    \/ SubstituteAgain
    \/ StackExhausted
    \/ \E folderPath \in IncludeDirs : AddIncludePath(folderPath)
    \/ \E changeCallback \in client.callbacks : SetCallback(changeCallback)
    \/ \E path \in client.filenames : SetFilename(path)
    \/ \E dict \in client.dictionaries : SetDictionary(dict)
    \/ \E path \in client.changes : FileChanged(path)

Spec == Init /\ [][Next]_vars

\* a pass that has begun keeps running: process() is one thread of control
FairSpec == Spec /\ WF_vars(ParseLine \/ EndOfFile \/ SubstituteAgain)

-----------------------------------------------------------------------------
(* SharedMemory (src/src/misc/sharedmemory.cpp): the lock of a segment *)

\* a program that uses no preprocessor: one is constructed and left alone
NoShader == Constructed(Root :> <<>>, StdDict, NoClient)

\* create(name, size) up to shmat: shmget makes the segment, which any
\* process can attach from now on; the system hands out zeroed memory.  With
\* IPC_EXCL the call throws when the segment exists, and nothing changes.
ShmGet(p) ==
    /\ procs[p] = "start"
    /\ segment = "none"
    /\ segment' = "exists"
    /\ mutex' = FALSE
    /\ procs' = [procs EXCEPT ![p] = "creating"]
    /\ UNCHANGED <<preprocessor, textureUnits>>

\* the rest of create(): memoryHeader->mutex.clear(), then shmdt
ClearMutex(p) ==
    /\ procs[p] = "creating"
    /\ mutex' = FALSE
    /\ procs' = [procs EXCEPT ![p] = "start"]
    /\ UNCHANGED <<segment, preprocessor, textureUnits>>

\* SharedMemory(name): shmget of the existing segment and shmat; it throws
\* when there is no segment
Attach(p) ==
    /\ procs[p] = "start"
    /\ segment = "exists"
    /\ procs' = [procs EXCEPT ![p] = "attached"]
    /\ UNCHANGED <<segment, mutex, preprocessor, textureUnits>>

\* acquireLock() is called: the process enters the loop
AcquireLock(p) ==
    /\ procs[p] = "attached"
    /\ procs' = [procs EXCEPT ![p] = "spinning"]
    /\ UNCHANGED <<segment, mutex, preprocessor, textureUnits>>

\* one turn of the loop of acquireLock(): test_and_set sets the flag and
\* gives what it was; the loop ends when it was clear
TestAndSet(p) ==
    /\ procs[p] = "spinning"
    /\ mutex' = TRUE
    /\ procs' = [procs EXCEPT ![p] = IF mutex THEN "spinning" ELSE "locked"]
    /\ UNCHANGED <<segment, preprocessor, textureUnits>>

\* releaseLock() of a process that acquired the lock
ReleaseLock(p) ==
    /\ procs[p] = "locked"
    /\ mutex' = FALSE
    /\ procs' = [procs EXCEPT ![p] = "attached"]
    /\ UNCHANGED <<segment, preprocessor, textureUnits>>

LockInit ==
    /\ NoShader
    /\ NoSegment
    /\ NoUnits
    /\ capabilities = NoCapabilities

LockNext ==
    \/ \E p \in Procs : ShmGet(p)
    \/ \E p \in Procs : ClearMutex(p)
    \/ \E p \in Procs : Attach(p)
    \/ \E p \in Procs : AcquireLock(p)
    \/ \E p \in Procs : TestAndSet(p)
    \/ \E p \in Procs : ReleaseLock(p)

LockSpec == LockInit /\ [][LockNext]_vars

\* every process keeps running: a process in the loop takes its next turn
LockFairSpec == LockSpec /\ \A p \in Procs : WF_vars(TestAndSet(p))

-----------------------------------------------------------------------------
(* TextureUnit (src/src/opengl/textureunit.cpp) *)

\* what SystemCapabilities can be when the first TextureUnit is constructed:
\* not initialized, or initialized and reporting a number of units
Reported ==
    {NoCapabilities}
        \cup {[isInitialized |-> TRUE, maxTextureUnits |-> n] : n \in 0 .. MaxReported}

\* "OpenGL requires at least 16 texture units to exist"
DefaultTexUnits == 16

\* a TextureUnit that was just constructed
NewUnit == [state |-> "alive", assigned |-> FALSE, number |-> 0]

\* no TextureUnit object here (not yet constructed, or destroyed)
NoUnit == [state |-> "unborn", assigned |-> FALSE, number |-> 0]

\* the slots i with !_busyUnits[i], i < _maxTexUnits (slot i at i + 1)
FreeSlots == {i \in 1 .. maxTexUnits : ~busyUnits[i]}

\* the first slot the loop of assignUnit finds free
FirstFree == CHOOSE i \in FreeSlots : \A j \in FreeSlots : i <= j

\* initialize()
initialize ==
    /\ maxTexUnits' = IF capabilities.isInitialized
                      THEN capabilities.maxTextureUnits
                      ELSE DefaultTexUnits
    /\ busyUnits' = [i \in 1 .. (IF capabilities.isInitialized
                                 THEN capabilities.maxTextureUnits
                                 ELSE DefaultTexUnits) |-> FALSE]
    /\ isInitialized' = TRUE

\* unassign() that leaves the counter alone
unassignKeepCounter(o) ==
    IF units[o].assigned
    THEN /\ units' = [units EXCEPT ![o].assigned = FALSE]
         /\ busyUnits' = [busyUnits EXCEPT ![units[o].number + 1] = FALSE]
         /\ UNCHANGED totalActive
    ELSE UNCHANGED <<units, busyUnits, totalActive>>

\* unassign().  The counter is an unsigned int: a decrement at 0 would wrap,
\* and shows here as a counter below 0.
unassign(o) ==
    IF units[o].assigned
    THEN /\ units' = [units EXCEPT ![o].assigned = FALSE]
         /\ busyUnits' = [busyUnits EXCEPT ![units[o].number + 1] = FALSE]
         /\ totalActive' = totalActive - 1
    ELSE UNCHANGED <<units, busyUnits, totalActive>>

\* assignUnit()
assignUnit(o) ==
    IF totalActive >= maxTexUnits
    THEN /\ unitError' = "TextureUnitError"
         /\ UNCHANGED <<units, busyUnits, totalActive>>
    ELSE /\ unitError' = ""
         /\ IF FreeSlots = {}
            THEN \* the loop ends without a free slot
                 /\ units' = [units EXCEPT ![o].assigned = TRUE]
                 /\ UNCHANGED <<busyUnits, totalActive>>
            ELSE /\ units' = [units EXCEPT ![o].assigned = TRUE,
                                           ![o].number = FirstFree - 1]
                 /\ busyUnits' = [busyUnits EXCEPT ![FirstFree] = TRUE]
                 /\ totalActive' = totalActive + 1

\* TextureUnit()
Construct(o) ==
    /\ units[o].state = "unborn"
    /\ IF ~isInitialized
       THEN initialize
       ELSE UNCHANGED <<maxTexUnits, busyUnits, isInitialized>>
    /\ units' = [units EXCEPT ![o] = NewUnit]
    /\ unitError' = ""
    /\ UNCHANGED <<totalActive, capabilities, preprocessor, sharedMemory>>

\* bind(texture)
Bind(o) ==
    /\ units[o].state = "alive"
    /\ IF ~units[o].assigned
       THEN assignUnit(o)
       ELSE /\ unitError' = ""
            /\ UNCHANGED <<units, busyUnits, totalActive>>
    /\ UNCHANGED <<isInitialized, maxTexUnits, capabilities, preprocessor,
                   sharedMemory>>

\* operator GLint()
OperatorGLint(o) ==
    /\ units[o].state = "alive"
    /\ IF ~units[o].assigned
       THEN assignUnit(o)
       ELSE /\ unitError' = ""
            /\ UNCHANGED <<units, busyUnits, totalActive>>
    /\ UNCHANGED <<isInitialized, maxTexUnits, capabilities, preprocessor,
                   sharedMemory>>

\* unassign() called by the program
Unassign(o) ==
    /\ units[o].state = "alive"
    /\ unassign(o)
    /\ unitError' = ""
    /\ UNCHANGED <<isInitialized, maxTexUnits, capabilities, preprocessor,
                   sharedMemory>>

\* ~TextureUnit(): unassign(), and the object is gone
Destroy(o) ==
    /\ units[o].state = "alive"
    /\ \E released \in {units[o].assigned} :
           /\ units' = [units EXCEPT ![o] = NoUnit]
           /\ IF released
              THEN /\ busyUnits' = [busyUnits EXCEPT ![units[o].number + 1] = FALSE]
                   /\ totalActive' = totalActive - 1
              ELSE UNCHANGED <<busyUnits, totalActive>>
    /\ unitError' = ""
    /\ UNCHANGED <<isInitialized, maxTexUnits, capabilities, preprocessor,
                   sharedMemory>>

UnitInit ==
    /\ NoShader
    /\ NoSegment
    /\ NoUnits
    /\ capabilities \in Reported

UnitNext ==
    \/ \E o \in Objects : Construct(o)
    \/ \E o \in Objects : Bind(o)
    \/ \E o \in Objects : OperatorGLint(o)
    \/ \E o \in Objects : Unassign(o)
    \/ \E o \in Objects : Destroy(o)

UnitSpec == UnitInit /\ [][UnitNext]_vars




-----------------------------------------------------------------------------
(* Claims *)

\* C1: for a well-formed source (each #for with its #endfor in the same
\* file) every loop body is written once per key of its dictionary, in key
\* order, with the key name and the value name standing for that key and its
\* value, nested loops run again in every iteration, and a loop over no keys
\* writes nothing: at every point of the pass the text written so far is a
\* start of that expansion, the pass never meets an #endfor it takes for
\* unmatched, and a pass that ends has written the whole expansion.
C1_BalancedLoops ==
    (LoopSource /\ pc # "idle") =>
        /\ IsPrefix(TextOf(env.output), Expected.out)
        /\ pc = "done" => TextOf(output) = Expected.out /\ Expected.ok
        /\ pc = "error" => error.type # "ParserError"

\* the environment of the running pass, as its handlers see it
Now == Call(env, dictionary, includedFiles, files, includePaths)

\* the line that parseLine reads next
NextLine ==
    files[env.inputs[Len(env.inputs)].path][env.inputs[Len(env.inputs)].pos + 1]

\* what the open loops say a name stands for: the binding of the innermost
\* open loop with keys that binds the name; <<>> when no open loop binds it
RECURSIVE Binding(_, _, _, _)
Binding(fs, dict, name, n) ==
    IF n = 0 THEN <<>>
    ELSE LET f == fs[n]
             key == DictKeys(DictValue(dict, f.dictionaryReference))[f.keyIndex + 1]
         IN  IF f.keyIndex >= 0 /\ name = f.valueName
             THEN Append(f.dictionaryReference, key)
             ELSE IF f.keyIndex >= 0 /\ name = f.keyName
             THEN <<Quote(key)>>
             ELSE Binding(fs, dict, name, n - 1)

\* C2: a name bound by several open loops resolves to the binding of the
\* innermost of them: between an inner #for and its #endfor to the inner
\* loop's current key, and from the line after the inner #endfor on to the
\* current key of the enclosing loop again, in every iteration of the
\* enclosing loop; a name that no open loop binds resolves to itself.
C2_AliasShadowing ==
    pc = "running" =>
        \A name \in {"k", "v"} :
            LET b == Binding(env.forStatements, dictionary, name,
                             Len(env.forStatements))
            IN  resolveAlias(<<name>>, Now).out = IF b = <<>> THEN <<name>> ELSE b

\* C2 witness: the inner range loop of the second iteration of the loop over
\* d has just ended, and v stands for d.b again
C2_Witness ==
    /\ pc = "running"
    /\ Len(env.forStatements) = 1
    /\ env.forStatements[1].keyIndex = 1
    /\ env.forStatements[1].valueName = "v"
    /\ Len(env.output) >= 2
    /\ env.output[Len(env.output) - 1].s = "//# Terminated loop over (Range 1 to 2)"
    /\ resolveAlias(<<"v">>, Now).out = <<"d", "b">>

\* the numbers min .. max as text
RangeTexts(min, max) == [i \in 1 .. (max - min + 1) |-> ToString(min + i - 1)]

\* C3: a pass over a source that ends with the loop "#for v in min..max",
\* "#{v}", "#endfor", min <= max, writes for that loop the max-min+1 lines
\* min, min+1, ..., max in this order, and leaves in the dictionary, under
\* the key "(Range min to max)", a dictionary with the keys "1" ..
\* "max-min+1" in this order, the i-th standing for min+i-1.
C3_RangeShorthand ==
    \A min \in -1 .. MaxRange, max \in -1 .. MaxRange :
        LET root == files[Root]
            n == max - min + 1
            t == TextOf(output)
            range == DictValue(dictionary, <<RangeName(min, max)>>)
        IN  ( /\ pc = "done"
              /\ min <= max
              /\ Len(root) >= 3
              /\ SubSeq(root, Len(root) - 2, Len(root))
                     = <<ForRange(min, max), TextV, EndFor>>
              /\ WellFormed(SubSeq(root, 1, Len(root) - 3)) )
            => /\ Len(t) >= n
               /\ SubSeq(t, Len(t) - n + 1, Len(t)) = RangeTexts(min, max)
               /\ DictHasValue(dictionary, <<RangeName(min, max)>>, "dict")
               /\ DictKeys(range) = [i \in 1 .. n |-> ToString(i)]
               /\ \A i \in 1 .. n :
                      /\ range[i].v.t = "string"
                      /\ Flat(range[i].v.v) = ToString(min + i - 1)

\* C3 witness: the loop over -1..1 has written -1, 0 and 1
C3_Witness ==
    /\ pc = "done"
    /\ files[Root] = <<ForRange(-1, 1), TextV, EndFor>>
    /\ TextOf(output) = <<"-1", "0", "1">>
    /\ DictKeys(DictValue(dictionary, <<RangeName(-1, 1)>>)) = <<"1", "2", "3">>

\* the source is one line with one token: "  u = #{token};"
TokenSource ==
    /\ DOMAIN files = {Root}
    /\ Len(files[Root]) = 1
    /\ files[Root][1].kind = "text"
    /\ files[Root][1].indent = "  "
    /\ Len(files[Root][1].body) = 3
    /\ files[Root][1].body[1] = Lit("u = ")
    /\ files[Root][1].body[2].t = "sub"
    /\ files[Root][1].body[3] = Lit(";")

SourceToken == files[Root][1].body[2].tok

\* the eight types substitution knows, in the order it probes them
ProbeOrder ==
    <<"bool", "string", "int", "double", "ivec2", "ivec3", "dvec2", "dvec3">>

\* the first of the probed types that the value at a path has; 0 when none
FirstProbe(dict, path) ==
    IF \E i \in 1 .. Len(ProbeOrder) : DictHasValue(dict, path, ProbeOrder[i])
    THEN CHOOSE i \in 1 .. Len(ProbeOrder) :
             /\ DictHasValue(dict, path, ProbeOrder[i])
             /\ \A j \in 1 .. (i - 1) : ~DictHasValue(dict, path, ProbeOrder[j])
    ELSE 0

\* the text the claim gives for a value of a type
ProbeText(type, v) ==
    IF type = "bool" THEN (IF v THEN "1" ELSE "0")
    ELSE IF type = "string" THEN Flat(v)
    ELSE IF type = "int" THEN ToString(v)
    ELSE IF type = "double" THEN DoubleToString(v)
    ELSE IF type = "ivec2"
    THEN "ivec2(" \o ToString(v[1]) \o "," \o ToString(v[2]) \o ")"
    ELSE IF type = "ivec3"
    THEN "ivec3(" \o ToString(v[1]) \o "," \o ToString(v[2]) \o ","
             \o ToString(v[3]) \o ")"
    ELSE IF type = "dvec2"
    THEN "dvec2(" \o DoubleFormat(v[1]) \o "," \o DoubleFormat(v[2]) \o ")"
    ELSE "dvec3(" \o DoubleFormat(v[1]) \o "," \o DoubleFormat(v[2]) \o ","
             \o DoubleFormat(v[3]) \o ")"

\* C4: a token that names an existing dictionary path is replaced by the text
\* of the first type, in the order boolean, string, integer, double, ivec2,
\* ivec3, dvec2, dvec3, that the value at the path has (true gives 1, false
\* 0, the integer 5 gives 5, the ivec2 (1,2) gives ivec2(1,2)); when the
\* value has none of the eight types the pass ends with a SubstitutionError.
C4_TypeProbeOrder ==
    ( /\ TokenSource
      /\ pc \in {"done", "error"}
      /\ DictHasKey(StdDict, SourceToken) )
    => LET i == FirstProbe(StdDict, SourceToken)
       IN  IF i > 0
           THEN /\ pc = "done"
                /\ TextOf(output) =
                       << "  u = " \o ProbeText(ProbeOrder[i],
                                                DictValue(StdDict, SourceToken))
                              \o ";" >>
           ELSE /\ pc = "error"
                /\ error.type = "SubstitutionError"
                /\ error.token = Dotted(SourceToken)

\* C4 witness: the token pos, an ivec2, has been written as ivec2(1,2)
C4_Witness ==
    /\ TokenSource
    /\ SourceToken = <<"pos">>
    /\ pc = "done"
    /\ TextOf(output) = <<"  u = ivec2(1,2);">>

\* the line the innermost input read last, when it is a line of text outside
\* the body of a loop without keys
TextLineRead ==
    /\ pc \in {"running", "error"}
    /\ Len(env.inputs) > 0
    /\ env.inputs[Len(env.inputs)].pos > 0
    /\ files[env.inputs[Len(env.inputs)].path]
            [env.inputs[Len(env.inputs)].pos].kind = "text"
    /\ ~isInsideEmptyForStatement(Now)

LineRead ==
    files[env.inputs[Len(env.inputs)].path][env.inputs[Len(env.inputs)].pos]

\* a token as the claim resolves it: the part before the first dot replaced
\* by the top alias of that name
AliasResolved(tok) ==
    IF tok[1] \in DOMAIN env.aliases /\ Len(env.aliases[tok[1]]) > 0
    THEN env.aliases[tok[1]][Len(env.aliases[tok[1]])] \o Tail(tok)
    ELSE tok

\* C5: when a line of text outside the body of a loop without keys holds a
\* token that, its alias resolved, is neither a quoted string nor an existing
\* dictionary path, the pass ends at that line with a SubstitutionError that
\* names the token as written, the file and the line.
C5_UnresolvedToken ==
    ( /\ TextLineRead
      /\ LastToken(LineRead.body) > 0
      /\ LineRead.body[LastToken(LineRead.body)].t = "sub"
      /\ LET tok == LineRead.body[LastToken(LineRead.body)].tok
         IN  /\ ~isString(AliasResolved(tok))
             /\ ~DictHasKey(dictionary, AliasResolved(tok)) )
    => /\ pc = "error"
       /\ error.type = "SubstitutionError"
       /\ error.token = Dotted(LineRead.body[LastToken(LineRead.body)].tok)
       /\ error.file = env.inputs[Len(env.inputs)].path
       /\ error.line = env.inputs[Len(env.inputs)].lineNumber

\* C5 witness: the token nokey has ended the pass with a SubstitutionError
C5_Witness ==
    /\ TokenSource
    /\ SourceToken = <<"nokey">>
    /\ pc = "error"
    /\ error.type = "SubstitutionError"
    /\ error.token = "nokey"
    /\ error.file = Root

\* the open loops that were opened in the file being read
OpenedHere ==
    {i \in 1 .. Len(env.forStatements) :
         env.forStatements[i].inputIndex = Len(env.inputs) - 1}

\* C6: when the end of a file is reached while a #for opened in that file is
\* not closed, the pass ends there with a ParserError that names that file
\* and the line number recorded for the innermost such #for, which is the
\* number the line counter had given the #for line; in the root file and in
\* an included file alike.
C6_UnclosedFor ==
    [][ ( /\ pc = "running"
          /\ ~HasLine(Now)
          /\ OpenedHere # {} )
        => LET f == env.forStatements[CHOOSE i \in OpenedHere :
                                          \A j \in OpenedHere : j <= i]
               file == env.inputs[Len(env.inputs)].path
           IN  /\ pc' = "error"
               /\ error'.type = "ParserError"
               /\ error'.forFile = file
               /\ error'.forLine = f.lineNumber
               /\ files[file][f.lineNumber - InitialLineNumber].kind = "for"
      ]_vars

\* C6 witness: the included file a ended with its #for open, and the error
\* names a and the line of the #for
C6_Witness ==
    /\ pc = "error"
    /\ error.type = "ParserError"
    /\ error.what = "Unexpected end of file. Still processing #for loop"
    /\ error.forFile = Path("s", "a")
    /\ Len(files[Path("s", "a")]) = 2
    /\ files[Path("s", "a")][2].kind = "for"
    /\ error.forLine = InitialLineNumber + 2

\* C7: an #endfor read while no loop is open, or while the innermost open
\* loop was opened in another file than the one being read, ends the pass
\* with a ParserError, and neither pops a scope nor moves the loop to its
\* next key: scopes, aliases and open loops are as they were.
C7_UnexpectedEndFor ==
    [][ ( /\ pc = "running"
          /\ HasLine(Now)
          /\ NextLine.kind = "endfor"
          /\ \/ Len(env.forStatements) = 0
             \/ env.forStatements[Len(env.forStatements)].inputIndex
                    # Len(env.inputs) - 1 )
        => /\ pc' = "error"
           /\ error'.type = "ParserError"
           /\ env'.scopes = env.scopes
           /\ env'.aliases = env.aliases
           /\ env'.forStatements = env.forStatements
      ]_vars

\* C7 witness: an #endfor of the included file a met the loop of the root file
C7_Witness ==
    /\ pc = "error"
    /\ error.type = "ParserError"
    /\ error.what = "Unexpected #endfor. Last #for was in"
    /\ error.file = Path("s", "a")
    /\ error.forFile = Root
    /\ Len(env.forStatements) = 1
    /\ Len(env.scopes) = 1

\* the identifiers of the registry
Identifiers(reg) == {reg[p].fileIdentifier : p \in DOMAIN reg}

\* C8: every path of the registry has one identifier; the identifiers are
\* 0 .. n-1 without duplicates, 0 that of the root file of the first pass
\* (the first entry of the registry); a path included for
\* the first time gets the size of the registry as its identifier; a path
\* already registered keeps its entry and its identifier through every later
\* include, in the same pass and in later passes, and no entry is removed.
C8_RegistryIdentifiers ==
    /\ [] /\ Identifiers(includedFiles)
                 = 0 .. (Cardinality(DOMAIN includedFiles) - 1)
          /\ \A p, q \in DOMAIN includedFiles :
                 includedFiles[p].fileIdentifier = includedFiles[q].fileIdentifier
                     => p = q
          /\ \A i \in 1 .. Len(env.output) :
                 env.output[i].k = "line" =>
                     /\ env.output[i].file \in DOMAIN includedFiles
                     /\ env.output[i].id
                            = includedFiles[env.output[i].file].fileIdentifier
    /\ [][ /\ \A p \in DOMAIN includedFiles :
                  /\ p \in DOMAIN includedFiles'
                  /\ includedFiles'[p].fileIdentifier
                         = includedFiles[p].fileIdentifier
           /\ \A p \in DOMAIN includedFiles' \ DOMAIN includedFiles :
                  includedFiles'[p].fileIdentifier
                      = Cardinality(DOMAIN includedFiles)
           /\ (DOMAIN includedFiles = {} /\ DOMAIN includedFiles' # {})
                  => /\ DOMAIN includedFiles' = {shaderPath}
                     /\ includedFiles'[shaderPath].fileIdentifier = 0
         ]_vars

\* C8 witness: a second pass has included the three files of the first pass
\* again, and the registry has three entries
C8_Witness ==
    /\ Len(results) = 2
    /\ results[1].ok
    /\ results[2].ok
    /\ Cardinality(DOMAIN includedFiles) = 3
    /\ \E i \in 1 .. Len(output) : output[i].k = "line" /\ output[i].id = 2

\* C9: two consecutive successful passes over the same files, with the same
\* filename and the dictionary the caller passed, write the same output,
\* the line numbers and file identifiers of the #line markers included.
C9_SameOutputTwice ==
    \A i \in 1 .. (Len(results) - 1) :
        (results[i].ok /\ results[i + 1].ok) => results[i].out = results[i + 1].out

\* C9 witness: two successful passes over a source with a loop and an include
C9_Witness ==
    /\ Len(results) = 2
    /\ results[1].ok
    /\ results[2].ok
    /\ results[1].out = results[2].out
    /\ \E i \in 1 .. Len(files[Root]) : files[Root][i].kind = "include"
    /\ \E i \in 1 .. Len(files[Root]) : files[Root][i].kind = "for"

\* the places a quoted include of p is looked for, in the order of the claim
Candidates(p) ==
    <<Join(env.inputs[Len(env.inputs)].path.dir, p)>>
        \o [i \in 1 .. Len(includePaths) |-> Join(includePaths[i], p)]
        \o <<p>>

\* C10: a quoted include of p, read outside the body of a loop without keys
\* while the process can open one more file (fewer than MaxDepth are open),
\* opens the first of its candidates (p in the folder of the including file,
\* p in each include folder in the order of registration, p as given) that
\* is a regular file, whatever later candidates exist; when none is, the pass
\* ends with an IncludeError that names p.
C10_QuotedIncludeOrder ==
    [][ ( /\ pc = "running"
          /\ HasLine(Now)
          /\ NextLine.kind = "include"
          /\ NextLine.shape = "quote"
          /\ ~isInsideEmptyForStatement(Now)
          /\ Len(env.inputs) < MaxDepth )
        => LET c == Candidates(NextLine.name)
               found == {i \in 1 .. Len(c) : is_regular_file(files, c[i])}
           IN  IF found = {}
               THEN /\ pc' = "error"
                    /\ error'.type = "IncludeError"
                    /\ error'.token = PathText(NextLine.name)
               ELSE /\ pc' = "running"
                    /\ Len(env'.inputs) = Len(env.inputs) + 1
                    /\ env'.inputs[Len(env'.inputs)].path
                           = absPath(c[CHOOSE i \in found : \A j \in found : i <= j])
      ]_vars

\* C10 witness: with the folders i2 and i1 registered in this order and the
\* file a in both of them but not beside the root file, a of i2 is open
C10_Witness ==
    /\ pc = "running"
    /\ includePaths = <<"i2", "i1">>
    /\ Path("i1", "a") \in DOMAIN files
    /\ Path("i2", "a") \in DOMAIN files
    /\ Path("s", "a") \notin DOMAIN files
    /\ files[Root] = <<IncQ(Path("", "a"))>>
    /\ Len(env.inputs) = 2
    /\ env.inputs[2].path = Path("i2", "a")

\* C11: every pass comes to an end: a process() call that has begun returns
\* the flattened output or raises an error.  Checked under FairSpec, in which
\* the thread of process() keeps running.  The code does not keep this: a
\* string value whose text leads back to its own token keeps substituteLine
\* splicing for ever.
C11_PassTerminates ==
    (pc = "running") ~> (pc \in {"done", "error"})

\* C11 witness: substituteLine met a line for the second time while it was
\* replacing the tokens of the values ping and pong by one another
C11_Witness ==
    /\ pc = "substituting"
    /\ files[Root][2] = TextLine("", <<Sub(<<"ping">>)>>)
    /\ LastToken(env.line) # 0

\* the innermost input has read a line
HasRead ==
    /\ pc \in {"running", "error"}
    /\ Len(env.inputs) > 0
    /\ env.inputs[Len(env.inputs)].pos > 0

\* C12: a pass that fails at a #for line without a key name, whose
\* dictionary reference is not a range min..max of integers, fails with a
\* ParserError or a SubstitutionError and with no other type of error.  The
\* code does not keep this: a range whose ends are not numerals fails in
\* std::stoi.
C12_ForErrorTypes ==
    (pc = "error" /\ HasRead /\ LineRead.kind = "for" /\ LineRead.keyName = "")
    => error.type \in {"ParserError", "SubstitutionError"}

\* C12 witness: the line "#for v in x..2" has ended the pass with the
\* exception of std::stoi
C12_Witness ==
    /\ pc = "error"
    /\ HasRead
    /\ LineRead = ForLine("", "", "v", <<"x", "", "2">>)
    /\ error.type = "std::invalid_argument"

\* the output of the last pass that returned; empty when none has
RECURSIVE LastOutput(_)
LastOutput(rs) ==
    IF Len(rs) = 0 THEN <<>>
    ELSE IF rs[Len(rs)].ok THEN rs[Len(rs)].out
    ELSE LastOutput(SubSeq(rs, 1, Len(rs) - 1))

\* C13: while a pass runs and when it has failed, the caller's output string
\* is what it was before the call: what the last pass that returned wrote,
\* or empty.  Nothing of the failed pass is written to it.
C13_OutputUntouched ==
    pc \in {"running", "substituting", "crashed", "error"}
    => output = LastOutput(results)

\* C13 witness: a pass has failed after it had written lines of its own, and
\* the caller's string is still empty
C13_Witness ==
    /\ pc = "error"
    /\ Len(env.output) > 0
    /\ output = <<>>

\* the innermost open loop
TopFor == env.forStatements[Len(env.forStatements)]

\* the next line is the #endfor of the innermost open loop, in the file the
\* loop was opened in, and the loop has a key left for a further iteration
EndForWithKeyLeft ==
    /\ pc = "running"
    /\ HasLine(Now)
    /\ NextLine.kind = "endfor"
    /\ Len(env.forStatements) > 0
    /\ TopFor.inputIndex = Len(env.inputs) - 1
    /\ TopFor.keyIndex >= 0
    /\ DictHasValue(dictionary, TopFor.dictionaryReference, "dict")
    /\ TopFor.keyIndex + 1
           < Len(DictKeys(DictValue(dictionary, TopFor.dictionaryReference)))

\* C14: the #line marker written at an #endfor that starts a further
\* iteration carries the line number recorded at the #for, which is the
\* number the marker of the first iteration carried: the line number of the
\* first line of the body.  The code does not keep this: the marker is
\* written before the line counter is set back.
C14_IterationMarker ==
    [][ EndForWithKeyLeft
        => /\ pc' = "running"
           /\ Len(env'.output) = Len(env.output) + 2
           /\ env'.output[Len(env'.output)]
                  = OutLine(TopFor.lineNumber,
                            includedFiles[env.inputs[Len(env.inputs)].path]
                                .fileIdentifier,
                            env.inputs[Len(env.inputs)].path)
      ]_vars

\* C14 witness: the second iteration of the loop over d has begun: the line
\* counter is set back to the first line of the body and the last record of
\* the output is the #line marker of the #endfor
C14_Witness ==
    /\ pc = "running"
    /\ files[Root] = <<ForD, TextX, EndFor>>
    /\ Len(env.forStatements) = 1
    /\ TopFor.keyIndex = 1
    /\ env.inputs[1].pos = TopFor.streamPos
    /\ env.inputs[1].lineNumber = TopFor.lineNumber
    /\ env.output[Len(env.output)].k = "line"
    /\ env.output[Len(env.output)].n = TopFor.lineNumber + 2

\* the #line marker that names the innermost input of an environment
MarkerOf(en, reg) ==
    OutLine(en.inputs[Len(en.inputs)].lineNumber,
            reg[en.inputs[Len(en.inputs)].path].fileIdentifier,
            en.inputs[Len(en.inputs)].path)

\* C15: the step that enters an included file writes, before any text of
\* the file, a #line marker with that file's identifier; the step that finds
\* the end of an included file writes a #line marker with the parent file's
\* identifier and the parent's current line number; the step that enters the
\* root file writes nothing, and after the end of the root file the output is
\* handed over with nothing added.
C15_IncludeMarkers ==
    [][ /\ ( /\ pc = "running" /\ pc' = "running"
             /\ Len(env'.inputs) = Len(env.inputs) + 1 )
           => env'.output = Append(env.output, MarkerOf(env', includedFiles'))
        /\ ( /\ pc = "running" /\ pc' = "running"
             /\ Len(env'.inputs) = Len(env.inputs) - 1 )
           => /\ env'.inputs = SubSeq(env.inputs, 1, Len(env.inputs) - 1)
              /\ env'.output = Append(env.output, MarkerOf(env', includedFiles))
        /\ (pc # "running" /\ pc' = "running") => env'.output = <<>>
        /\ (pc = "running" /\ pc' = "done")
           => Len(env.inputs) = 1 /\ output' = env.output
      ]_vars

\* C15 witness: the root file is read again after the end of the file a; the
\* output holds the marker of a (identifier 1) and ends with the marker of
\* the root file (identifier 0) at the line after the #include
C15_Witness ==
    /\ pc = "running"
    /\ files[Root] = <<TextX, IncQ(Path("", "a")), TextX>>
    /\ files[Path("s", "a")] = <<TextX>>
    /\ Len(env.inputs) = 1
    /\ env.output = << OutText("x"),
                       OutLine(InitialLineNumber, 1, Path("s", "a")),
                       OutText("x"),
                       OutLine(InitialLineNumber + 2, 0, Root) >>

\* C16: an entry of the registry gets its tracked flag from the include that
\* registers it (tracked unless the line carries :notrack; the root file is
\* tracked), and no later step changes the flag or takes the callback from
\* the File of the entry, whatever a later include of the path carries.
C16_TrackedFlagFixed ==
    [][ /\ \A p \in DOMAIN includedFiles :
               /\ p \in DOMAIN includedFiles'
               /\ includedFiles'[p].isTracked = includedFiles[p].isTracked
               /\ includedFiles[p].watched => includedFiles'[p].watched
        /\ \A p \in DOMAIN includedFiles' \ DOMAIN includedFiles :
               includedFiles'[p].isTracked
                   = (pc = "running" => ~NextLine.notrack)
      ]_vars

\* C16 witness: the file a was first included without :notrack and is being
\* read for its second include, the one with :notrack: it is still tracked
\* and its File still holds the callback
C16_Witness ==
    /\ pc = "running"
    /\ files[Root] = <<IncQ(Path("", "a")), IncNT(Path("", "a"))>>
    /\ Len(env.inputs) = 2
    /\ env.inputs[1].pos = 2
    /\ includedFiles[Path("s", "a")].isTracked
    /\ includedFiles[Path("s", "a")].watched

\* a step has added an entry of the operation op to the log
Logged(op) == Len(log') = Len(log) + 1 /\ log'[Len(log')].op = op

\* C17: a step that changes the file name invokes the registered callback
\* once, and nothing when none is registered; the callback is invoked for
\* setFilename only by a step that changes the file name, and for
\* setDictionary only by a step that changes the dictionary; while no
\* callback is registered no mutator invokes anything.  The code does not
\* keep the part on setDictionary: it invokes the callback on every call.
C17_MutatorCallbacks ==
    [][ /\ shaderPath' # shaderPath
           => log' = IF onChangeCallback # ""
                     THEN Append(log, LogEntry("setFilename", shaderPath',
                                               onChangeCallback))
                     ELSE log
        /\ Logged("setFilename") => shaderPath' # shaderPath
        /\ Logged("setDictionary") => dictionary' # dictionary
        /\ onChangeCallback = ""
           => ~Logged("setFilename") /\ ~Logged("setDictionary")
      ]_vars

\* C17 witness: with the callback f registered, setDictionary was called
\* with the dictionary the preprocessor already had, and f was invoked
C17_Witness ==
    /\ log = << LogEntry("setCallback", NoPath, "f"),
                LogEntry("setDictionary", NoPath, "f") >>
    /\ dictionary = StdDict
    /\ results = <<>>

\* the calls of setCallback before the entry i of the log
SetBefore(i) == {j \in 1 .. (i - 1) : log[j].op = "setCallback"}

\* C18: every change notification that came after a call of setCallback
\* invoked, when the file is registered as tracked, the function of the
\* latest call of setCallback before it, and invoked nothing when the file is
\* registered as untracked; whether the file was registered before or after
\* that call.
C18_WatcherCallbacks ==
    \A i \in 1 .. Len(log) :
        (log[i].op = "watcher" /\ SetBefore(i) # {})
        => log[i].fn =
               IF includedFiles[log[i].path].isTracked
               THEN log[CHOOSE j \in SetBefore(i) :
                            \A k \in SetBefore(i) : k <= j].fn
               ELSE ""

\* C18 witness: after setCallback(f) and setCallback(g) the tracked file a
\* changed and g was invoked
C18_Witness ==
    /\ log = << LogEntry("setCallback", NoPath, "f"),
                LogEntry("setCallback", NoPath, "g"),
                LogEntry("watcher", Path("s", "a"), "g") >>
    /\ includedFiles[Path("s", "a")].isTracked

\* C19: a line read in the body of a loop without keys, other than the
\* #endfor, is not written, not substituted and not dispatched: the step
\* raises no error and leaves the output, the dictionary, the registry, the
\* open inputs, loops, scopes and aliases as they were; only the line
\* counter and the position in the file move on.
C19_EmptyLoopSkips ==
    [][ ( /\ pc = "running"
          /\ HasLine(Now)
          /\ Len(env.forStatements) > 0
          /\ TopFor.keyIndex = -1
          /\ NextLine.kind # "endfor" )
        => /\ pc' = "running"
           /\ error' = NoError
           /\ env'.output = env.output
           /\ dictionary' = dictionary
           /\ includedFiles' = includedFiles
           /\ env'.forStatements = env.forStatements
           /\ env'.scopes = env.scopes
           /\ env'.aliases = env.aliases
           /\ env'.inputs =
                  [env.inputs EXCEPT ![Len(env.inputs)].pos = @ + 1,
                                     ![Len(env.inputs)].lineNumber = @ + 1]
      ]_vars

\* C19 witness: a loop without keys whose body holds an undefined token and
\* an #include of a missing file has ended, and the pass has returned: of the
\* loop the output holds its two comments and the #line marker after the
\* #endfor, then the line after the loop
C19_Witness ==
    /\ pc = "done"
    /\ files[Root] = <<ForE, TextLine("", <<Sub(<<"nokey">>)>>),
                       IncQ(Path("", "missing")), EndFor, TextX>>
    /\ output = << OutComment("//# Empty for loop"),
                   OutComment("//# Terminated loop over e"),
                   OutLine(InitialLineNumber + 4, 0, Root),
                   OutText("x") >>

\* the source holds a #for in the body of a loop over the empty dictionary e
NestedInEmpty ==
    \E i \in 1 .. Len(files[Root]), j \in 1 .. Len(files[Root]) :
        /\ files[Root][i] = ForE
        /\ files[Root][j].kind = "for"
        /\ i < j
        /\ j < MatchingEndFor(files[Root], i)

\* C20: for a well-formed source with a #for ... #endfor pair nested in the
\* body of a loop without keys, the pass does not fail with "Unexpected
\* #endfor", and when it has ended it has written the expansion, in which
\* the body of the loop without keys does not appear.  The code does not
\* keep this: the nested #endfor closes the loop without keys.
C20_NestedInEmptyLoop ==
    (LoopSource /\ NestedInEmpty)
    => /\ pc = "error"
          => error.what # "Unexpected #endfor. No corresponding #for was found"
       /\ pc = "done" => TextOf(output) = Expected.out

\* C20 witness: the second #endfor of the source has ended the pass with
\* "Unexpected #endfor"
C20_Witness ==
    /\ files[Root] = <<ForE, ForD, EndFor, EndFor>>
    /\ pc = "error"
    /\ error.type = "ParserError"
    /\ error.what = "Unexpected #endfor. No corresponding #for was found"
    /\ error.line = InitialLineNumber + 4

\* what a line of pieces stands for when each token is replaced by the text
\* its value stands for, the rightmost piece first: the text, or the first
\* failure met
RECURSIVE Spliced(_, _)
Spliced(dict, line) ==
    IF Len(line) = 0 THEN [err |-> "none", token |-> "", text |-> ""]
    ELSE LET p == line[Len(line)]
             r == IF p.t = "lit"
                  THEN [err |-> "none", token |-> "", text |-> p.s]
                  ELSE IF p.t = "open"
                  THEN [err |-> "ParserError", token |-> "", text |-> ""]
                  ELSE IF ~DictHasFlatKey(dict, p.tok[1])
                  THEN [err |-> "SubstitutionError", token |-> p.tok[1], text |-> ""]
                  ELSE Spliced(dict, SubstituteValue(dict, p.tok))
             l == Spliced(dict, SubSeq(line, 1, Len(line) - 1))
         IN  IF r.err # "none" THEN r
             ELSE IF l.err # "none" THEN l
             ELSE [err |-> "none", token |-> "", text |-> l.text \o r.text]

\* the next line is a line of the splice family
SpliceNext ==
    /\ pc = "running"
    /\ dictionary = SpliceDict
    /\ HasLine(Now)
    /\ NextLine.kind = "text"

\* C21: substituteLine replaces the rightmost token first and looks at the
\* whole line again after each replacement: when it returns, the line holds
\* no "#{" and the text written is the line with each token replaced by what
\* its value stands for, tokens inside replacement text included; a failure
\* is that of the rightmost piece that fails, and a "#{" that nothing closes
\* is a ParserError.
C21_SubstituteLine ==
    [][ SpliceNext
        => LET want == Spliced(dictionary, NextLine.body)
           IN  /\ pc' \in {"running", "error"}
               /\ want.err = "none"
                      => /\ pc' = "running"
                         /\ \A i \in 1 .. Len(env'.line) : env'.line[i].t = "lit"
                         /\ env'.output = Append(env.output, OutText(want.text))
               /\ want.err # "none"
                      => /\ pc' = "error"
                         /\ error'.type = want.err
                         /\ error'.token = want.token
                         /\ env'.output = env.output
      ]_vars

\* C21 witness: the line "#{two}x" has been written as "5+5x": the token
\* of the replacement text of two was replaced in the same step
C21_Witness ==
    /\ dictionary = SpliceDict
    /\ files[Root] = <<TextLine("", <<Sub(<<"two">>), Lit("x")>>)>>
    /\ pc = "running"
    /\ TextOf(env.output) = <<"5+5x">>

\* the next line is a line of text with one token, read outside the body of
\* a loop without keys
OneTokenNext ==
    /\ pc = "running"
    /\ HasLine(Now)
    /\ ~isInsideEmptyForStatement(Now)
    /\ NextLine.kind = "text"
    /\ Cardinality({i \in 1 .. Len(NextLine.body) : NextLine.body[i].t # "lit"}) = 1
    /\ \E i \in 1 .. Len(NextLine.body) : NextLine.body[i].t = "sub"

\* the token of such a line
TokenNext ==
    NextLine.body[CHOOSE i \in 1 .. Len(NextLine.body) : NextLine.body[i].t = "sub"].tok

\* the rule of the claim: the first segment replaced by its alias, the token
\* is a quoted string without a dot or a path of the dictionary
ResolvesByRule(tok) ==
    \/ Len(tok) = 1 /\ isString(AliasResolved(tok))
    \/ DictHasKey(dictionary, AliasResolved(tok))

\* the step ended the pass because the token did not resolve
Unresolved(tok) ==
    /\ pc' = "error"
    /\ error'.token = Dotted(tok)
    /\ error'.what \in {"Could not resolve variable", "value is not a Dictionary"}

\* C22: a token resolves exactly when, the segment before its first dot
\* replaced by the top of that name's alias stack, it is a quoted string
\* without a dot or a path of the dictionary, of any number of segments,
\* walked through nested dictionaries; later segments are never replaced
\* by aliases.
C22_TokenResolves ==
    [][ OneTokenNext => (ResolvesByRule(TokenNext) <=> ~Unresolved(TokenNext)) ]_vars

\* C22 witness: in the loop over n that binds the name a, the token n.a.b of
\* three segments has been written as 7
C22_Witness ==
    /\ dictionary = NestDict
    /\ files[Root][1].valueName = "a"
    /\ files[Root][2] = TextLine("", <<Sub(<<"n", "a", "b">>)>>)
    /\ pc = "running"
    /\ "a" \in DOMAIN env.aliases
    /\ TextOf(env.output) = <<"7">>

\* the open scopes that hold a name
ScopesWith(name) == {i \in 1 .. Len(env.scopes) : name \in env.scopes[i]}

\* C23: in every state of a pass no name of the alias table has an empty
\* stack, the stack of a name is as deep as the number of open scopes that
\* hold the name, and every name of an open scope has a stack: popScope
\* finds a value to pop for each name of the scope it closes, also for the
\* empty key name of a range loop and for a key name that is the value name.
C23_AliasStacks ==
    /\ \A name \in DOMAIN env.aliases :
           /\ Len(env.aliases[name]) > 0
           /\ Len(env.aliases[name]) = Cardinality(ScopesWith(name))
    /\ \A i \in 1 .. Len(env.scopes) : env.scopes[i] \subseteq DOMAIN env.aliases

\* C23 witness: a loop with one name for key and value, inside a range
\* loop, is in its second iteration: its scope was popped and pushed again,
\* and the name v has a stack of two
C23_Witness ==
    /\ files[Root] = <<ForRange(1, 2), ForSame, TextV, EndFor, TextV, EndFor>>
    /\ pc = "running"
    /\ env.scopes = <<{"", "v"}, {"v"}>>
    /\ Len(env.aliases["v"]) = 2
    /\ Len(env.aliases[""]) = 1
    /\ env.forStatements[2].keyIndex = 1

\* the leading whitespace of the #include lines that opened the inputs
\* 2 .. n, outermost first: the line an input read last is the #include
\* line of the input above it
RECURSIVE ChainIndent(_)
ChainIndent(n) ==
    IF n <= 1 THEN ""
    ELSE ChainIndent(n - 1)
         \o files[env.inputs[n - 1].path][env.inputs[n - 1].pos].indent

\* the next line is text without tokens, read outside the body of a loop
\* without keys
VerbatimNext ==
    /\ pc = "running"
    /\ HasLine(Now)
    /\ ~isInsideEmptyForStatement(Now)
    /\ NextLine.kind = "text"
    /\ \A i \in 1 .. Len(NextLine.body) : NextLine.body[i].t = "lit"

\* C24: the indentation of an open input is the leading whitespace of the
\* #include lines of the chain that opened it, outermost first (none for the
\* root file), and a line of text is written with that indentation before
\* its own leading whitespace, also in the parent after an included file
\* has ended.
C24_Indentation ==
    /\ [] (pc = "running"
              => \A i \in 1 .. Len(env.inputs) :
                     env.inputs[i].indentation = ChainIndent(i))
    /\ [][ VerbatimNext
             => env'.output =
                    Append(env.output,
                           OutText(ChainIndent(Len(env.inputs)) \o NextLine.indent
                                   \o Flat(NextLine.body))) ]_vars

\* C24 witness: the line of b, included from a behind a tab, a included from
\* the root file behind a blank, has been written behind blank and tab, and
\* the last line of the root file with its own two blanks alone
C24_Witness ==
    /\ DOMAIN files = {Root, Path("s", "a"), Path("s", "b")}
    /\ Len(files[Root]) = 3
    /\ Len(files[Path("s", "a")]) = 3
    /\ files[Root][2].indent = " "
    /\ files[Path("s", "a")][2].indent = "\t"
    /\ pc = "done"
    /\ TextOf(output) = <<"  x", "   x", " \t  x", "   x", "  x">>

\* the folders of the list
Registered == {includePaths[i] : i \in 1 .. Len(includePaths)}

\* C25: the list of include folders never holds a folder twice; a step only
\* appends to it, so that the folders stay in the order of their first
\* registration and none is lost; addIncludePath of a folder of the list
\* leaves the list as it is, and of another folder appends it.
C25_IncludePathList ==
    /\ [] (\A i, j \in 1 .. Len(includePaths) :
               includePaths[i] = includePaths[j] => i = j)
    /\ [][ /\ IsPrefix(includePaths, includePaths')
           /\ \A folderPath \in IncludeDirs :
                  AddIncludePath(folderPath)
                      => includePaths' =
                             IF folderPath \in Registered THEN includePaths
                             ELSE Append(includePaths, folderPath) ]_vars

\* C25 witness: i2 was registered before i1, and a pass has run with the
\* list in that order
C25_Witness ==
    /\ includePaths = <<"i2", "i1">>
    /\ pc = "done"

\* C26: after every line a pass has processed, and when the pass has ended
\* without an error, there are as many open scopes as open ForStatements,
\* a loop without keys having its (empty) scope too; and no pass ends with
\* the "Unexpected end of file" of the scopes check of process().
C26_ScopePerLoop ==
    /\ pc \in {"running", "done"} => Len(env.scopes) = Len(env.forStatements)
    /\ error.what # "Unexpected end of file"

\* C26 witness: a loop without keys is open inside another loop, each with
\* its scope, that of the loop without keys empty
C26_Witness ==
    /\ pc = "running"
    /\ Len(env.forStatements) = 2
    /\ env.forStatements[2].keyIndex = -1
    /\ env.forStatements[1].keyIndex >= 0
    /\ Len(env.scopes) = 2
    /\ env.scopes[2] = {}
    /\ env.scopes[1] # {}

\* C27: whenever a pass is between two lines, the line counter of every
\* open input, less its initial value, is the number of lines of the file
\* before the cursor of the input, and every open loop recorded a line
\* number and a stream position that agree in the same way: a loop that is
\* replayed leaves the counter as one reading of its body would.
C27_CounterFollowsCursor ==
    pc = "running"
    => /\ \A i \in 1 .. Len(env.inputs) :
              env.inputs[i].lineNumber - InitialLineNumber = env.inputs[i].pos
       /\ \A i \in 1 .. Len(env.forStatements) :
              env.forStatements[i].lineNumber - InitialLineNumber
                  = env.forStatements[i].streamPos

\* C27 witness: the inner of two loops has been replayed and has ended in
\* the second iteration of the outer loop, and the line after its #endfor
\* is the next to be read
C27_Witness ==
    /\ files[Root] = <<ForD, ForD, EndFor, EndFor>>
    /\ pc = "running"
    /\ Len(env.forStatements) = 1
    /\ env.forStatements[1].keyIndex = 1
    /\ env.inputs[1].pos = 3
    /\ env.inputs[1].lineNumber = InitialLineNumber + 3

\* C28: no change notification invokes a change hook that was not set: no
\* notification of the log ended in the call of an empty function.  The
\* code does not keep this: the callback that includeFile gives the File of
\* a tracked entry calls _onChangeCallback without a test.
C28_HookIsSet ==
    \A i \in 1 .. Len(log) :
        log[i].op = "watcher" => log[i].fn # "std::bad_function_call"

\* C28 witness: a pass has registered the tracked file a, no callback was
\* ever set, and the change of a has called the empty function
C28_Witness ==
    /\ onChangeCallback = ""
    /\ Path("s", "a") \in DOMAIN includedFiles
    /\ includedFiles[Path("s", "a")].isTracked
    /\ log = <<LogEntry("watcher", Path("s", "a"), "std::bad_function_call")>>


-----------------------------------------------------------------------------
(* C29 *)

\* the processes between the return of acquireLock() and releaseLock()
Holders == {p \in Procs : procs[p] = "locked"}

\* C29: at any time at most one process is between the return of its
\* acquireLock() and its releaseLock() on the segment.
C29_MutualExclusion == Cardinality(Holders) <= 1

\* C29 (second part): when the flag is clear and a process is in the loop of
\* acquireLock(), a process comes out of the loop holding the lock.
C29_NoDeadlock ==
    (~mutex /\ \E p \in Procs : procs[p] = "spinning") ~> (Holders # {})

\* two processes hold the lock: one took it while create() had not yet
\* cleared the flag, the other after create() cleared it
C29_Witness ==
    /\ Cardinality(Holders) = 2
    /\ \A p \in Procs : procs[p] # "creating"


-----------------------------------------------------------------------------
(* C30 *)

\* the objects that are assigned
Assigned == {o \in Objects : units[o].state = "alive" /\ units[o].assigned}

\* the slots that are marked busy
BusySlots == {i \in 1 .. Len(busyUnits) : busyUnits[i]}

\* a step in which an object that is not assigned asks for a unit
Assigning(o) ==
    /\ units[o].state = "alive"
    /\ ~units[o].assigned
    /\ Bind(o) \/ OperatorGLint(o)

\* C30: no two objects that are assigned at the same time hold the same unit
\* number, the active counter equals the number of busy slots, and an
\* assignment attempted when all units are busy raises TextureUnitError
\* without marking the object assigned or changing any slot.
C30_UnitsAreExclusive ==
    /\ [](\A o1, o2 \in Assigned :
             units[o1].number = units[o2].number => o1 = o2)
    /\ [](totalActive = Cardinality(BusySlots))
    /\ [][\A o \in Objects :
             (Assigning(o) /\ BusySlots = 1 .. Len(busyUnits))
                 => /\ unitError' = "TextureUnitError"
                    /\ units' = units
                    /\ busyUnits' = busyUnits
                    /\ totalActive' = totalActive]_vars

\* two units exist and both are taken by two objects, and the assignment of
\* a third object has thrown
C30_Witness ==
    /\ maxTexUnits = 2
    /\ Cardinality(Assigned) = 2
    /\ BusySlots = {1, 2}
    /\ unitError = "TextureUnitError"
    /\ \E o \in Objects : units[o].state = "alive" /\ ~units[o].assigned

====
